---- MODULE Spec2Model ----
(***************************************************************************)
(* NestTestKit: test-database lifecycle managers (Prisma, TypeORM and      *)
(* Mongoose variants), their adapters and the seeder dependency            *)
(* resolution, modelled from src/core/*-test-database-manager.ts,          *)
(* src/adapters/*-adapter.ts and src/utils/errors.ts.                      *)
(***************************************************************************)
EXTENDS Integers, Sequences, FiniteSets, TLC

VARIABLES
    variant,    \* which backend family the manager under study belongs to
    seeders,    \* the seeder list handed to seed(list)
    insts,      \* every TestDatabase object constructed so far
    databases,  \* the manager's registry: id -> index into insts
    files,      \* database files present on disk
    run,        \* the seed() call in flight, or its final outcome
    lastCall,   \* the last finished API call and how it ended
    sweep,      \* the destroyAll() whose destroy promises are being settled
    flight      \* where a cleanup('recreate') and a destroy() in flight stand

vars == <<variant, seeders, insts, databases, files, run, lastCall, sweep, flight>>

----------------------------------------------------------------------------
(* Bounds of the model *)

MaxEdges == 3
MaxRunEdges == 1
MaxInstances == 2

----------------------------------------------------------------------------
(* Helpers on sequences and sets *)

Range(s) == {s[k] : k \in DOMAIN s}

\* the names seeders carry, and the names they may declare as dependencies
\* ("Ghost" is the name of no seeder)
SeederNames == {"A", "B", "C"}

DependencyNames == SeederNames \cup {"Ghost"}

Variants == {"prisma", "typeorm", "mongoose"}

\* index of the first element of s equal to x, 0 when absent
IndexOf(s, x) == IF x \in Range(s) THEN CHOOSE k \in DOMAIN s : s[k] = x /\ \A j \in 1..(k - 1) : s[j] # x ELSE 0

----------------------------------------------------------------------------
(* Error values: class name, code, message fragments, details.context *)

NoError == [type |-> "none", codeType |-> "absent", code |-> <<>>, msg |-> <<>>, context |-> <<>>]

PlainError(msg) == [type |-> "Error", codeType |-> "absent", code |-> <<>>, msg |-> msg, context |-> <<>>]

NestTestKitErrorTypes == {"NestTestKitError", "DatabaseError", "ConfigurationError", "MigrationError", "SeedingError", "FactoryError", "TransactionError", "TestSetupError"}

createHelpfulError(type, code, message, suggestions) ==
    [type |-> type, codeType |-> "string", code |-> code,
     msg |-> IF Len(suggestions) > 0 THEN message \o <<"Suggestions:">> \o suggestions ELSE message,
     context |-> <<>>]

seederDependencyError(seederName, missingDep) ==
    createHelpfulError("SeedingError", <<"SEEDING_ERROR">>,
        <<"Seeder '", seederName, "' depends on '", missingDep, "' which was not found">>,
        <<"Make sure the '", missingDep, "' seeder is defined and included in your seeder list",
          "Check for circular dependencies in your seeder dependency chain",
          "Verify that seeder names match exactly (case-sensitive)">>)

CircularText == "circular dependency detected"

\* the error thrown by visit() when seederName is on the active path
circularThrown(seederName) ==
    IF variant = "prisma"
    THEN PlainError(<<"Circular dependency detected in seeders: ", seederName>>)
    ELSE seederDependencyError(seederName, CircularText)

\* the error thrown by visit() when seederName is not in the map
notFoundThrown(seederName) ==
    IF variant = "prisma"
    THEN PlainError(<<"Seeder not found: ", seederName>>)
    ELSE seederDependencyError("unknown", seederName)

----------------------------------------------------------------------------
(* Seeder lists *)

\* sequences of pairwise distinct names drawn from S, of length at most n
RECURSIVE DistinctSeqs(_, _)
DistinctSeqs(S, n) ==
    IF n = 0 \/ S = {} THEN {<<>>}
    ELSE {<<>>} \cup UNION {{<<x>> \o t : t \in DistinctSeqs(S \ {x}, n - 1)} : x \in S}

Seeder(n, d) == [name |-> n, dependencies |-> d]

Names(list) == [k \in DOMAIN list |-> list[k].name]

RECURSIVE CountDependencies(_)
CountDependencies(list) ==
    IF list = <<>> THEN 0 ELSE Len(list[1].dependencies) + CountDependencies(Tail(list))

----------------------------------------------------------------------------
(* resolveDependencies: depth-first topological sort *)

buildSeederMap(list) ==
    [n \in {list[k].name : k \in DOMAIN list} |->
        list[CHOOSE k \in DOMAIN list : list[k].name = n /\ \A j \in (k + 1)..Len(list) : list[j].name # n]]

enterVisitedFirst(st, seederName) == [st EXCEPT !.visited = @ \cup {seederName}]

enter(st, seederName) == [st EXCEPT !.visiting = @ \cup {seederName}]

leaveUnshift(st, seeder) ==
    [st EXCEPT !.visiting = @ \ {seeder.name}, !.visited = @ \cup {seeder.name}, !.resolved = <<seeder>> \o @]

leaveNotVisited(st, seeder) ==
    [st EXCEPT !.visiting = @ \ {seeder.name}, !.resolved = Append(@, seeder)]

leave(st, seeder) ==
    [st EXCEPT !.visiting = @ \ {seeder.name}, !.visited = @ \cup {seeder.name}, !.resolved = Append(@, seeder)]

RECURSIVE visit(_, _, _)
RECURSIVE visitDependencies(_, _, _, _)

visitDependencies(deps, k, seederMap, st) ==
    IF k > Len(deps) \/ st.thrown # NoError THEN st
    ELSE visitDependencies(deps, k + 1, seederMap, visit(deps[k], seederMap, st))

visit(seederName, seederMap, st) ==
    IF st.thrown # NoError THEN st
    ELSE IF seederName \in st.visited THEN st
    ELSE IF seederName \in st.visiting THEN [st EXCEPT !.thrown = circularThrown(seederName)]
    ELSE IF seederName \notin DOMAIN seederMap THEN [st EXCEPT !.thrown = notFoundThrown(seederName)]
    ELSE LET seeder == seederMap[seederName]
             st2 == visitDependencies(seeder.dependencies, 1, seederMap, enter(st, seederName))
         IN  IF st2.thrown # NoError THEN st2 ELSE leave(st2, seeder)

RECURSIVE visitEachReversed(_, _, _, _)
visitEachReversed(list, k, seederMap, st) ==
    IF k > Len(list) \/ st.thrown # NoError THEN st
    ELSE visitEachReversed(list, k + 1, seederMap, visit(list[Len(list) + 1 - k].name, seederMap, st))

\* for (const seeder of seeders) visit(seeder.name)
RECURSIVE visitEach(_, _, _, _)
visitEach(list, k, seederMap, st) ==
    IF k > Len(list) \/ st.thrown # NoError THEN st
    ELSE visitEach(list, k + 1, seederMap, visit(list[k].name, seederMap, st))

resolveDependencies(list) ==
    visitEach(list, 1, buildSeederMap(list),
        [resolved |-> <<>>, visiting |-> {}, visited |-> {}, thrown |-> NoError])

----------------------------------------------------------------------------
(* ErrorHandler.handle and the values a seeder body may throw *)

TypeErrorThrown == [type |-> "TypeError", codeType |-> "absent", code |-> <<>>,
                    msg |-> <<"error.code.startsWith is not a function">>, context |-> <<>>]

\* what user code or a backend may throw: a typed toolkit error, errors with a
\* string code (Prisma, SQLite, Node, other), with a numeric code, without code
ThrownValues ==
    { [type |-> "FactoryError", codeType |-> "string", code |-> <<"FACTORY_ERROR">>, msg |-> <<"factory failed">>, context |-> <<>>],
      [type |-> "Error", codeType |-> "string", code |-> <<"P", "2002">>, msg |-> <<"unique constraint">>, context |-> <<>>],
      [type |-> "Error", codeType |-> "string", code |-> <<"SQLITE", "_BUSY">>, msg |-> <<"database is locked">>, context |-> <<>>],
      [type |-> "Error", codeType |-> "string", code |-> <<"E", "NOENT">>, msg |-> <<"no such file">>, context |-> <<>>],
      [type |-> "MongoServerError", codeType |-> "number", code |-> <<"11000">>, msg |-> <<"duplicate key">>, context |-> <<>>],
      [type |-> "Error", codeType |-> "absent", code |-> <<>>, msg |-> <<"boom">>, context |-> <<>>] }

startsWith(code, prefix) == Len(code) > 0 /\ code[1] = prefix

includes(code, part) == part \in Range(code)

\* ErrorHandler.handle(error, context): [threw, value]; threw means handle
\* itself raised (a truthy non-string code has no startsWith)
handle(error, context) ==
    IF error.type \in NestTestKitErrorTypes THEN [threw |-> FALSE, value |-> error]
    ELSE IF error.codeType = "number" THEN [threw |-> TRUE, value |-> TypeErrorThrown]
    ELSE IF error.codeType = "string" /\ startsWith(error.code, "P")
    THEN [threw |-> FALSE, value |-> [type |-> "DatabaseError", codeType |-> "string", code |-> <<"DATABASE_ERROR">>,
                                      msg |-> <<"Prisma error: ">> \o error.msg, context |-> context]]
    ELSE IF error.codeType = "string" /\ (error.code = <<"SQLITE", "_ERROR">> \/ includes(error.code, "SQLITE"))
    THEN [threw |-> FALSE, value |-> [type |-> "DatabaseError", codeType |-> "string", code |-> <<"DATABASE_ERROR">>,
                                      msg |-> <<"SQLite error: ">> \o error.msg, context |-> context]]
    ELSE IF error.codeType = "string" /\ startsWith(error.code, "E")
    THEN [threw |-> FALSE, value |-> [type |-> "ConfigurationError", codeType |-> "string", code |-> <<"CONFIGURATION_ERROR">>,
                                      msg |-> <<"System error: ">> \o error.msg, context |-> context]]
    ELSE [threw |-> FALSE, value |-> [type |-> "NestTestKitError", codeType |-> "string", code |-> <<"UNKNOWN_ERROR">>,
                                      msg |-> IF Len(error.msg) > 0 THEN error.msg ELSE <<"Unknown error occurred">>,
                                      context |-> context]]

\* `${error}` of an Error object: "<name>: <message>"
toString(error) == <<error.type, ": ">> \o error.msg

\* ErrorHandler.migrationFailed(originalError)
migrationFailed(originalError) ==
    createHelpfulError("MigrationError", <<"MIGRATION_ERROR">>,
        <<"Failed to apply database migrations: ">> \o originalError.msg,
        <<"Check that your Prisma schema file exists and is valid",
          "Ensure you have the necessary permissions to create/modify the database",
          "Try running \"npx prisma generate\" to update your Prisma client",
          "Check that your DATABASE_URL is correctly formatted">>)

\* what ends the wait of MongooseAdapter.createConnection: the 'open' event,
\* the 'error' event, or the timer of connectionTimeout
ConnectionSignals == {"open", "error", "timeout"}

\* the value the awaited promise of createConnection rejects with
connectionRejection(signal) ==
    IF signal = "timeout" THEN PlainError(<<"MongoDB connection timeout after ", "connectionTimeout", "ms">>)
    ELSE [type |-> "MongoNetworkError", codeType |-> "absent", code |-> <<>>,
          msg |-> <<"connect ECONNREFUSED">>, context |-> <<>>]

\* MongooseAdapter.createConnection(): NoError on 'open', else what its catch
\* block throws for the rejection
createConnection(signal) ==
    IF signal = "open" THEN NoError
    ELSE [type |-> "DatabaseError", codeType |-> "string", code |-> <<"DATABASE_ERROR">>,
          msg |-> <<"Failed to connect to MongoDB: ">> \o toString(connectionRejection(signal)),
          context |-> <<>>]

\* the value seed() throws when the body of seeder name threw error
seederFailure(name, error) ==
    IF variant = "prisma" THEN PlainError(<<"Failed to run seeder ", name, ": ">> \o toString(error))
    ELSE IF variant = "typeorm" THEN handle(error, <<"TypeORMSeeder:", name>>).value
    ELSE handle(error, <<"MongooseSeeder:", name>>).value

invalidCleanupStrategy(strategy) ==
    createHelpfulError("ConfigurationError", <<"CONFIGURATION_ERROR">>,
        <<"Invalid cleanup strategy: ", strategy>>,
        <<"Use \"transaction\", \"truncate\", or \"recreate\"",
          "Check your TestDatabaseConfig configuration",
          "Transaction strategy requires transaction support in your database">>)

\* TestDatabase.getClient / getDataSource / getConnection on isInitialized = false
notInitializedThrown ==
    PlainError(<<IF variant = "prisma" THEN "TestDatabase"
                 ELSE IF variant = "typeorm" THEN "TypeORMTestDatabase" ELSE "MongooseTestDatabase",
                 " not initialized. Call initialize() first.">>)

\* adapter.getConnection() on a null client: the rejection of the promise
adapterNotInitialized ==
    PlainError(<<IF variant = "prisma" THEN "PrismaAdapter"
                 ELSE IF variant = "typeorm" THEN "TypeORMAdapter" ELSE "MongooseAdapter",
                 " not initialized. Call initialize() first.">>)

\* adapter.getConnection(): the handle while the adapter holds a client /
\* dataSource / connection object, the state error on null
getConnection(rec) ==
    IF rec.client = "null" THEN [threw |-> TRUE, ret |-> "none", err |-> adapterNotInitialized]
    ELSE [threw |-> FALSE, ret |-> "handle", err |-> NoError]

IsStateError(e) == Len(e.msg) = 2 /\ e.msg[2] = " not initialized. Call initialize() first."

----------------------------------------------------------------------------
(* Catalog objects of a database. A table or collection is known by an     *)
(* identifier; TableName gives its name cut into the chunks that the name  *)
(* filters of the truncate passes look at.                                 *)

TableName(t) ==
    CASE t = "sqlite_sequence" -> <<"sqlite", "_", "sequence">>
      [] t = "sqlitestats" -> <<"sqlite", "stats">>
      [] t = "_prisma_migrations" -> <<"_", "prisma", "_", "migration", "s">>
      [] t = "immigration" -> <<"im", "migration">>
      [] t = "system.views" -> <<"system.", "views">>
      [] OTHER -> <<t>>

\* objects the backend or the migration tool keeps for itself
SystemObjects == {"sqlite_sequence", "_prisma_migrations", "system.views"}

\* sqlite_master / queryRunner.getTables() / listCollections() list the
\* objects in this order
TableOrder == <<"_prisma_migrations", "system.views", "A", "B", "C", "sqlitestats", "immigration", "sqlite_sequence">>

\* the tables the schema source of the config creates (schema.prisma with its
\* migrations, the entities), with what the backend adds; collections of
\* MongoDB come into being with their first document
SchemaTables ==
    IF variant = "prisma" THEN {"_prisma_migrations", "A", "B", "C", "sqlitestats", "sqlite_sequence"}
    ELSE IF variant = "typeorm" THEN {"A", "B", "C", "immigration", "sqlite_sequence"}
    ELSE {}

\* a database that was there before the test may hold views
ExistingObjects(url) == IF url = "mongodb://explicit" THEN {"system.views"} ELSE {}

\* the tables a test writes to
UserTables ==
    IF variant = "mongoose" THEN {"A", "B", "C"} ELSE SchemaTables \ SystemObjects

\* name LIKE 'sqlite_%': "sqlite", one character, then anything
likeSqliteAny(name) == Len(name) >= 2 /\ name[1] = "sqlite"

\* name LIKE '_prisma_migrations': one character, "prisma", one character, "migrations"
likePrismaMigrations(name) ==
    Len(name) = 5 /\ name[2] = "prisma" /\ name[4] = "migration" /\ name[5] = "s"

\* the objects the truncate pass leaves out, by their name
skipped(t) ==
    IF variant = "prisma" THEN likeSqliteAny(TableName(t)) \/ likePrismaMigrations(TableName(t))
    ELSE IF variant = "typeorm" THEN includes(TableName(t), "migration") \/ includes(TableName(t), "typeorm")
    ELSE startsWith(TableName(t), "system.")

\* the objects of S in catalog order
InOrder(S) == SelectSeq(TableOrder, LAMBDA t : t \in S)

----------------------------------------------------------------------------
(* Adapters: one connection per TestDatabase.                              *)
(* client: "null", "object" (constructed, not connected) or "open";        *)
(* server: the in-process MongoDB server, "none" or "running";             *)
(* rows: the user tables/collections that hold rows; fkOn: foreign-key     *)
(* enforcement of the SQLite connection.                                   *)

\* config.databaseUrl / config.mongoUri as the caller may give it ("none": not given)
UrlOptions == IF variant = "mongoose" THEN {"none", "mongodb://explicit"} ELSE {"none", ":memory:"}

\* Manager.generateDatabaseUrl(config): the explicit locator, else a fresh
\* temporary SQLite file, or the marker of the in-process MongoDB server
generateDatabaseUrl(configUrl) ==
    IF configUrl # "none" THEN configUrl
    ELSE IF variant = "mongoose" THEN "memory://default" ELSE "file:tmp"

\* the stage at which adapter.initialize may throw, per backend
InitOutcomes ==
    IF variant = "prisma" THEN {"ok", "migrate", "connect"}
    ELSE IF variant = "typeorm" THEN {"ok", "connect", "sync"}
    ELSE {"ok", "server", "connect", "models"}

\* PrismaAdapter / TypeORMAdapter / MongooseAdapter.initialize(config)
adapterInitialize(rec, outcome) ==
    IF variant = "prisma"
    THEN [rec EXCEPT !.client = IF outcome = "ok" THEN "open" ELSE "object",
                     !.tables = IF outcome = "migrate" THEN {} ELSE SchemaTables]
    ELSE IF variant = "typeorm"
    THEN [rec EXCEPT !.client = IF outcome = "connect" THEN "object" ELSE "open",
                     !.tables = IF outcome = "ok" THEN SchemaTables ELSE {}]
    ELSE IF outcome = "server" THEN rec
    ELSE [rec EXCEPT !.server = IF rec.url = "memory://default" THEN "running" ELSE "none",
                     !.client = IF outcome = "connect" THEN "object" ELSE "open",
                     !.tables = IF outcome = "connect" THEN {} ELSE ExistingObjects(rec.url)]

\* what adapter.initialize throws when it stops at the stage `outcome`: the
\* value its catch block gets back from ErrorHandler.handle
adapterInitializeThrown(outcome) ==
    IF variant = "prisma" /\ outcome = "migrate"
    THEN handle(migrationFailed(PlainError(<<"Command failed: npx prisma db push --force-reset">>)), <<"initialize">>).value
    ELSE IF variant = "mongoose" /\ outcome = "connect"
    THEN handle(createConnection("error"), <<"initialize">>).value
    ELSE handle(PlainError(<<outcome>>), <<"initialize">>).value

initializeSetsReadyAlways(rec, outcome) == [adapterInitialize(rec, outcome) EXCEPT !.isInitialized = TRUE]

\* TestDatabase.isReady()
isReady(rec) == rec.isInitialized

\* TestDatabase.initialize(): isInitialized only once the adapter succeeded
initialize(rec, outcome) ==
    IF outcome = "ok" THEN [adapterInitialize(rec, outcome) EXCEPT !.isInitialized = TRUE]
    ELSE adapterInitialize(rec, outcome)

\* adapter.close(); fail names the backend call that rejects, "none" if none.
\* Result: the adapter afterwards and whether close() threw.
close(rec, fail) ==
    IF variant = "prisma"
    THEN IF rec.client = "null" THEN [rec |-> rec, threw |-> FALSE]
         ELSE IF fail = "conn" THEN [rec |-> rec, threw |-> TRUE]
         ELSE [rec |-> [rec EXCEPT !.client = "null"], threw |-> FALSE]
    ELSE IF variant = "typeorm"
    THEN IF rec.client # "open" THEN [rec |-> rec, threw |-> FALSE]
         ELSE IF fail = "conn" THEN [rec |-> rec, threw |-> TRUE]
         ELSE [rec |-> [rec EXCEPT !.client = "null"], threw |-> FALSE]
    ELSE IF rec.client # "null" /\ fail = "conn" THEN [rec |-> rec, threw |-> FALSE]
         ELSE IF rec.server = "running" /\ fail = "server"
         THEN [rec |-> [rec EXCEPT !.client = "null"], threw |-> FALSE]
         ELSE [rec |-> [rec EXCEPT !.client = "null", !.server = "none"], threw |-> FALSE]

CloseFailures == {"none", "conn", "server"}

\* TestDatabase.destroy() of instance i: close the adapter, then remove the
\* database file of a file: URL. Result: instance, files, whether it threw.
destroyInstance(rec, i, fs, fail, rmFails) ==
    LET c == close(rec, fail) IN
    IF c.threw THEN [rec |-> c.rec, files |-> fs, threw |-> TRUE]
    ELSE IF variant # "mongoose" /\ rec.url = "file:tmp" /\ i \in fs
    THEN IF rmFails THEN [rec |-> c.rec, files |-> fs, threw |-> TRUE]
         ELSE [rec |-> [c.rec EXCEPT !.destroyed = TRUE], files |-> fs \ {i}, threw |-> FALSE]
    ELSE [rec |-> [c.rec EXCEPT !.destroyed = TRUE], files |-> fs, threw |-> FALSE]

\* the backend faults that a destroy() of this instance can meet
DestroyFaultApplies(rec, i, fs, fail, rmFails) ==
    /\ fail # "none" => destroyInstance(rec, i, fs, fail, rmFails) # destroyInstance(rec, i, fs, "none", rmFails)
    /\ rmFails => destroyInstance(rec, i, fs, fail, TRUE) # destroyInstance(rec, i, fs, fail, FALSE)

Strategies == {"transaction", "truncate", "recreate"}

\* strategy || this.config.cleanup || 'truncate'   ("none" is undefined)
cleanupStrategyConfigFirst(rec, strategy) ==
    IF rec.cleanup # "none" THEN rec.cleanup
    ELSE IF strategy # "none" THEN strategy ELSE "truncate"

cleanupStrategy(rec, strategy) ==
    IF strategy # "none" THEN strategy
    ELSE IF rec.cleanup # "none" THEN rec.cleanup ELSE "truncate"

\* the objects the truncate pass lists: the query of PrismaAdapter filters by
\* name, the other two list everything
listed(rec) == InOrder(IF variant = "prisma" THEN {t \in rec.tables : ~skipped(t)} ELSE rec.tables)

\* the objects of the list the pass issues a delete against, in order
targets(rec) == SelectSeq(listed(rec), LAMBDA t : ~skipped(t))

\* position in seq of the first object whose delete fails, 0 if none does
firstFailure(seq, failing) ==
    IF \E k \in DOMAIN seq : seq[k] \in failing
    THEN CHOOSE k \in DOMAIN seq : seq[k] \in failing /\ \A j \in 1..(k - 1) : seq[j] \notin failing
    ELSE 0

\* truncateAllTables / truncateAllCollections: failing = the objects whose
\* delete statement the backend rejects; listFails = the enumeration of the
\* objects failed. touched = the objects a delete was issued against.
truncateAll(rec, failing, listFails) ==
    IF listFails THEN [rec |-> [rec EXCEPT !.touched = {}], threw |-> TRUE]
    ELSE IF variant = "mongoose"
    THEN [rec |-> [rec EXCEPT !.rows = @ \ (Range(targets(rec)) \ failing), !.touched = Range(targets(rec))],
          threw |-> FALSE]
    ELSE IF variant = "typeorm" /\ listed(rec) = <<>> THEN [rec |-> [rec EXCEPT !.touched = {}], threw |-> FALSE]
    ELSE LET seq == targets(rec)
             k == firstFailure(seq, failing)
         IN  IF k = 0
             THEN [rec |-> [rec EXCEPT !.rows = @ \ Range(seq), !.touched = Range(seq), !.fkOn = TRUE], threw |-> FALSE]
             ELSE [rec |-> [rec EXCEPT !.rows = @ \ Range(SubSeq(seq, 1, k - 1)), !.touched = Range(SubSeq(seq, 1, k)),
                                       !.fkOn = FALSE],
                   threw |-> TRUE]

resetKeepsData(rec, fail) ==
    IF fail = "disconnect" THEN [rec |-> rec, threw |-> TRUE]
    ELSE [rec |-> [rec EXCEPT !.client = "open", !.fkOn = TRUE], threw |-> fail = "rebuild"]

\* adapter.reset() / dropAndRecreateDatabase(); fail: "none", "disconnect"
\* (nothing done yet) or "rebuild" (torn down, not reconnected)
reset(rec, fail) ==
    IF fail = "disconnect" THEN [rec |-> rec, threw |-> TRUE]
    ELSE IF variant = "mongoose"
    THEN [rec |-> [rec EXCEPT !.rows = {}, !.tables = {}], threw |-> fail = "rebuild"]
    ELSE IF fail = "rebuild" THEN [rec |-> [rec EXCEPT !.rows = {}, !.tables = {}, !.client = "object"], threw |-> TRUE]
    ELSE [rec |-> [rec EXCEPT !.rows = {}, !.tables = SchemaTables, !.client = "open", !.fkOn = TRUE], threw |-> FALSE]

adapterCleanupDefaultTruncates(rec, strategy, failing, listFails, fail) ==
    IF rec.client = "null" THEN [rec |-> rec, threw |-> FALSE, err |-> NoError]
    ELSE [rec |-> truncateAll(rec, failing, listFails).rec, threw |-> strategy \notin Strategies,
          err |-> IF strategy \notin Strategies THEN invalidCleanupStrategy(strategy) ELSE NoError]

adapterCleanupTransactionTruncates(rec, strategy, failing, listFails, fail) ==
    IF rec.client = "null" THEN [rec |-> rec, threw |-> FALSE, err |-> NoError]
    ELSE IF strategy \in {"transaction", "truncate"}
    THEN LET t == truncateAll(rec, failing, listFails) IN
         [rec |-> t.rec, threw |-> t.threw,
          err |-> IF t.threw THEN handle(PlainError(<<"Failed to truncate tables">>), <<"cleanup:", strategy>>).value ELSE NoError]
    ELSE IF strategy = "recreate"
    THEN LET r == reset(rec, fail) IN
         [rec |-> r.rec, threw |-> r.threw,
          err |-> IF r.threw THEN handle(PlainError(<<"Failed to reset database">>), <<"cleanup:", strategy>>).value ELSE NoError]
    ELSE [rec |-> rec, threw |-> TRUE, err |-> handle(invalidCleanupStrategy(strategy), <<"cleanup:", strategy>>).value]

\* adapter.cleanup(strategy): nothing at all without a client
adapterCleanup(rec, strategy, failing, listFails, fail) ==
    IF rec.client = "null" THEN [rec |-> rec, threw |-> FALSE, err |-> NoError]
    ELSE IF strategy = "transaction" /\ variant # "mongoose" THEN [rec |-> rec, threw |-> FALSE, err |-> NoError]
    ELSE IF strategy \in {"transaction", "truncate"}
    THEN LET t == truncateAll(rec, failing, listFails) IN
         [rec |-> t.rec, threw |-> t.threw,
          err |-> IF t.threw THEN handle(PlainError(<<"Failed to truncate tables">>), <<"cleanup:", strategy>>).value ELSE NoError]
    ELSE IF strategy = "recreate"
    THEN LET r == reset(rec, fail) IN
         [rec |-> r.rec, threw |-> r.threw,
          err |-> IF r.threw THEN handle(PlainError(<<"Failed to reset database">>), <<"cleanup:", strategy>>).value ELSE NoError]
    ELSE [rec |-> rec, threw |-> TRUE, err |-> handle(invalidCleanupStrategy(strategy), <<"cleanup:", strategy>>).value]

----------------------------------------------------------------------------
(* Manager and TestDatabase operations *)

IdSpace == 1..MaxInstances

ConfigCleanups == {"none", "transaction"}

Configs == [databaseUrl : UrlOptions, cleanup : ConfigCleanups]

NoCall == [op |-> "none", inst |-> 0, result |-> "ok", ret |-> "none", err |-> NoError]

Call(op, i, result, ret, err) == [op |-> op, inst |-> i, result |-> result, ret |-> ret, err |-> err]

IdleRun == [pc |-> "idle", inst |-> 0, live |-> FALSE, order |-> <<>>, idx |-> 0,
            current |-> "none", started |-> <<>>, finished |-> <<>>, thrown |-> NoError]

\* no destroyAll() yet. ids: the registry keys the call mapped to destroy
\* promises; pending: those not settled; failed: those rejected; returned:
\* the promise of destroyAll() has settled; reported: the ids whose failure
\* the rejection of destroyAll() carries
NoSweep == [ids |-> {}, pending |-> {}, failed |-> {}, returned |-> FALSE, reported |-> {}]

\* neither a reset() nor a destroy() is awaiting. reset / destroy: the await
\* at which the call stands, "idle" when there is none
NoFlight == [reset |-> "idle", destroy |-> "idle"]

\* the caller awaits each call: no other call while a seed() is in flight
NoSeedInFlight == run.pc # "running"

\* new TestDatabase(id, databaseUrl, config)
newTestDatabase(id, url, config) ==
    [id |-> id, url |-> url, cleanup |-> config.cleanup, isInitialized |-> FALSE,
     client |-> "null", server |-> "none", tables |-> {}, rows |-> {}, touched |-> {}, fkOn |-> TRUE,
     destroyed |-> FALSE, held |-> FALSE]

Put(f, k, v) == [x \in DOMAIN f \cup {k} |-> IF x = k THEN v ELSE f[x]]

DropEverything(f, ks) == <<>>

Drop(f, ks) == [x \in DOMAIN f \ ks |-> f[x]]

registerBeforeInitialize(dbs, id, i, outcome) == Put(dbs, id, i)

\* Manager.create: this.databases.set(id, testDb) is reached only when
\* testDb.initialize() did not throw
register(dbs, id, i, outcome) == IF outcome = "ok" THEN Put(dbs, id, i) ELSE dbs

\* locators that name a database of the caller's choosing: a file or a server.
\* "file:tmp" stands for the uniquely named temporary file of the instance,
\* ":memory:" and "memory://default" for a store private to the connection.
SharedLocators == {"file:shared.db", "mongodb://explicit"}

SameStoreByLocator(a, b) == a.url = b.url

\* two instances are connected to one and the same database
SameStore(a, b) == a.url = b.url /\ a.url \in SharedLocators

\* the open instances connected to the database of rec
peers(rec) == {k \in DOMAIN insts : insts[k].client = "open" /\ SameStore(insts[k], rec)}

\* a connection opened on a database sees what is already in it
connected(rec) ==
    IF rec.client = "open" /\ peers(rec) # {}
    THEN [rec EXCEPT !.rows = UNION {insts[k].rows : k \in peers(rec)},
                     !.tables = @ \cup UNION {insts[k].tables : k \in peers(rec)}]
    ELSE rec

\* the id was given to no instance before
Fresh(id) == id \notin {insts[k].id : k \in DOMAIN insts}

\* Manager.create(config); id is the value generateId() produced
create(config, id, outcome) ==
    /\ NoSeedInFlight
    /\ Len(insts) < MaxInstances
    /\ outcome \in InitOutcomes
    /\ outcome = "server" => generateDatabaseUrl(config.databaseUrl) = "memory://default"
    /\ LET i == Len(insts) + 1
           url == generateDatabaseUrl(config.databaseUrl)
           rec == connected(initialize(newTestDatabase(id, url, config), outcome))
       IN  /\ files' = IF url = "file:tmp" THEN files \cup {i} ELSE files
           /\ insts' = Append(insts, [rec EXCEPT !.held = (outcome = "ok")])
           /\ databases' = register(databases, id, i, outcome)
           /\ lastCall' = IF outcome = "ok" THEN Call("create", i, "ok", "none", NoError)
                          ELSE Call("create", i, "threw", "none", adapterInitializeThrown(outcome))
    /\ UNCHANGED <<flight, sweep, variant, seeders, run>>

\* new TestDatabase(id, databaseUrl, config) by the test itself: the object
\* is in the hands of the caller, not initialized and in no registry
construct(config, id) ==
    /\ NoSeedInFlight
    /\ Len(insts) < MaxInstances
    /\ LET i == Len(insts) + 1
           url == generateDatabaseUrl(config.databaseUrl)
       IN  /\ files' = IF url = "file:tmp" THEN files \cup {i} ELSE files
           /\ insts' = Append(insts, [newTestDatabase(id, url, config) EXCEPT !.held = TRUE])
           /\ lastCall' = Call("construct", i, "ok", "none", NoError)
    /\ UNCHANGED <<flight, sweep, variant, seeders, databases, run>>

\* Manager.get(id)
get(id) ==
    /\ NoSeedInFlight
    /\ lastCall' = IF id \in DOMAIN databases THEN Call("get", databases[id], "ok", "found", NoError)
                   ELSE Call("get", 0, "ok", "notfound", NoError)
    /\ UNCHANGED <<flight, sweep, variant, seeders, insts, databases, files, run>>

Held == {i \in DOMAIN insts : insts[i].held}

\* TestDatabase.initialize() called on an instance not yet initialized; what
\* the adapter throws propagates
initializeCall(i, outcome) ==
    /\ NoSeedInFlight
    /\ i \in Held
    /\ ~insts[i].isInitialized
    /\ outcome \in InitOutcomes
    /\ outcome = "server" => insts[i].url = "memory://default"
    /\ insts' = [insts EXCEPT ![i] = initialize(@, outcome)]
    /\ lastCall' = IF outcome = "ok" THEN Call("initialize", i, "ok", "none", NoError)
                   ELSE Call("initialize", i, "threw", "none", adapterInitializeThrown(outcome))
    /\ UNCHANGED <<flight, sweep, variant, seeders, databases, files, run>>


\* adapter.initialize stage by stage. The input names the configuration and
\* the faults of one call: migrate (config.applyMigrations / runMigrations),
\* synchronize (TypeORM config.synchronize), saved (migration files exist),
\* primaryFails (applying the saved migrations, or the first push, fails),
\* fallbackFails (the later schema push / synchronize fails), connect (how
\* the connection attempt ends), serverFails, modelsFail (Mongoose only)
InitStages ==
    IF variant = "prisma"
    THEN [migrate : BOOLEAN, synchronize : {FALSE}, saved : BOOLEAN, primaryFails : BOOLEAN,
          fallbackFails : BOOLEAN, connect : {"open", "error"}, serverFails : {FALSE}, modelsFail : {FALSE}]
    ELSE IF variant = "typeorm"
    THEN [migrate : BOOLEAN, synchronize : BOOLEAN, saved : BOOLEAN, primaryFails : BOOLEAN,
          fallbackFails : BOOLEAN, connect : {"open", "error"}, serverFails : {FALSE}, modelsFail : {FALSE}]
    ELSE [migrate : {FALSE}, synchronize : {FALSE}, saved : {FALSE}, primaryFails : {FALSE},
          fallbackFails : {FALSE}, connect : ConnectionSignals, serverFails : BOOLEAN, modelsFail : BOOLEAN]

\* PrismaAdapter.applyMigrations(): the commands run, whether the schema is
\* in the database afterwards, and what is thrown
applyMigrations(saved, primaryFails, fallbackFails) ==
    [steps  |-> <<IF saved THEN "deploy" ELSE "push">> \o (IF primaryFails THEN <<"fallback">> ELSE <<>>),
     schema |-> ~primaryFails \/ ~fallbackFails,
     thrown |-> IF primaryFails /\ fallbackFails
                THEN migrationFailed(PlainError(<<"Command failed: npx prisma db push --force-reset">>))
                ELSE NoError]

\* TypeORMAdapter.runMigrations(): what is thrown
runMigrations(fails) ==
    IF fails THEN migrationFailed(PlainError(<<"migration failed">>)) ELSE NoError

\* the error of a failed dataSource.synchronize() on SQLite
SynchronizeFailure == [type |-> "QueryFailedError", codeType |-> "string", code |-> <<"SQLITE", "_ERROR">>,
                       msg |-> <<"synchronize failed">>, context |-> <<>>]

\* adapter.initialize(config) under the stage input st: the stage it stops
\* at (as in InitOutcomes), the schema steps it performed, whether the
\* schema exists afterwards, and the error it throws
adapterInitializeResult(st) ==
    IF variant = "prisma"
    THEN LET m == IF st.migrate THEN applyMigrations(st.saved, st.primaryFails, st.fallbackFails)
                  ELSE [steps |-> <<>>, schema |-> FALSE, thrown |-> NoError]
         IN  IF m.thrown # NoError
             THEN [outcome |-> "migrate", steps |-> m.steps, schema |-> FALSE,
                   thrown |-> handle(m.thrown, <<"PrismaAdapter.initialize">>).value]
             ELSE IF st.connect # "open"
             THEN [outcome |-> "connect", steps |-> m.steps, schema |-> m.schema,
                   thrown |-> handle(PlainError(<<"Can't reach database server">>), <<"PrismaAdapter.initialize">>).value]
             ELSE [outcome |-> "ok", steps |-> m.steps, schema |-> m.schema, thrown |-> NoError]
    ELSE IF variant = "typeorm"
    THEN IF st.connect # "open"
         THEN [outcome |-> "connect", steps |-> <<>>, schema |-> FALSE,
               thrown |-> handle(PlainError(<<"unable to open database file">>), <<"TypeORMAdapter.initialize">>).value]
         ELSE IF st.migrate /\ runMigrations(st.primaryFails) # NoError
         THEN [outcome |-> "sync", steps |-> <<"runMigrations">>, schema |-> FALSE,
               thrown |-> handle(runMigrations(st.primaryFails), <<"TypeORMAdapter.initialize">>).value]
         ELSE LET ran == IF st.migrate THEN <<"runMigrations">> ELSE <<>>
                  migrated == st.migrate /\ st.saved
              IN  IF st.synchronize /\ st.fallbackFails
                  THEN [outcome |-> "sync", steps |-> ran \o <<"synchronize">>, schema |-> migrated,
                        thrown |-> handle(SynchronizeFailure, <<"TypeORMAdapter.initialize">>).value]
                  ELSE [outcome |-> "ok", steps |-> ran \o (IF st.synchronize THEN <<"synchronize">> ELSE <<>>),
                        schema |-> migrated \/ st.synchronize, thrown |-> NoError]
    ELSE IF st.serverFails
         THEN [outcome |-> "server", steps |-> <<>>, schema |-> FALSE,
               thrown |-> handle(PlainError(<<"server">>), <<"MongooseAdapter.initialize">>).value]
         ELSE IF createConnection(st.connect) # NoError
         THEN [outcome |-> "connect", steps |-> <<>>, schema |-> FALSE,
               thrown |-> handle(createConnection(st.connect), <<"MongooseAdapter.initialize">>).value]
         ELSE IF st.modelsFail
         THEN [outcome |-> "models", steps |-> <<>>, schema |-> FALSE,
               thrown |-> handle([type |-> "ConfigurationError", codeType |-> "string", code |-> <<"CONFIGURATION_ERROR">>,
                                  msg |-> <<"Failed to register model ">>, context |-> <<>>],
                                 <<"MongooseAdapter.initialize">>).value]
         ELSE [outcome |-> "ok", steps |-> <<>>, schema |-> FALSE, thrown |-> NoError]

\* TestDatabase.initialize() on an instance not yet initialized, with the
\* stages of adapter.initialize spelled out
initializeStaged(i, st) ==
    /\ NoSeedInFlight
    /\ i \in Held
    /\ ~insts[i].isInitialized
    /\ st \in InitStages
    /\ st.serverFails => insts[i].url = "memory://default"
    /\ LET r == adapterInitializeResult(st)
           rec == initialize(insts[i], r.outcome)
       IN  /\ insts' = [insts EXCEPT ![i] = IF variant = "mongoose" THEN rec
                                            ELSE [rec EXCEPT !.tables = IF r.schema THEN SchemaTables ELSE {}]]
           /\ lastCall' = IF r.outcome = "ok" THEN Call("initialize", i, "ok", "none", NoError)
                          ELSE Call("initialize", i, "threw", "none", r.thrown)
    /\ UNCHANGED <<flight, sweep, variant, seeders, databases, files, run>>


\* TestDatabase.getClient / getDataSource / getConnection: the promise that
\* adapter.getConnection() returns, or the state error
getClientResultUnchecked(rec) ==
    IF rec.client = "null" THEN [threw |-> FALSE, ret |-> "rejected", err |-> adapterNotInitialized]
    ELSE [threw |-> FALSE, ret |-> "handle", err |-> NoError]

getClientResult(rec) ==
    IF ~rec.isInitialized THEN [threw |-> TRUE, ret |-> "none", err |-> notInitializedThrown]
    ELSE IF rec.client = "null" THEN [threw |-> FALSE, ret |-> "rejected", err |-> adapterNotInitialized]
    ELSE [threw |-> FALSE, ret |-> "handle", err |-> NoError]

getClient(i) ==
    /\ NoSeedInFlight
    /\ i \in Held
    /\ LET g == getClientResult(insts[i]) IN
       lastCall' = Call("getClient", i, IF g.threw THEN "threw" ELSE "ok", g.ret, g.err)
    /\ UNCHANGED <<flight, sweep, variant, seeders, insts, databases, files, run>>

\* the backend faults that the chosen strategy can meet (each fault once)
CleanupFaultApplies(rec, strategy, failing, listFails, fail) ==
    LET cs == cleanupStrategy(rec, strategy)
        truncates == rec.client # "null" /\ (cs = "truncate" \/ (cs = "transaction" /\ variant = "mongoose"))
        resets == rec.client # "null" /\ cs = "recreate"
    IN  /\ ~truncates => failing = {} /\ ~listFails
        /\ listFails => failing = {}
        /\ failing \subseteq Range(targets(rec))
        /\ ~resets => fail = "none"

\* TestDatabase.cleanup(strategy?); the call is recorded with its argument
cleanup(i, strategy, failing, listFails, fail) ==
    /\ NoSeedInFlight
    /\ i \in Held
    /\ failing \subseteq insts[i].tables
    /\ LET c == adapterCleanup(insts[i], cleanupStrategy(insts[i], strategy), failing, listFails, fail) IN
       /\ insts' = [insts EXCEPT ![i] = c.rec]
       /\ lastCall' = Call("cleanup", i, IF c.threw THEN "threw" ELSE "ok", strategy, c.err)
    /\ UNCHANGED <<flight, sweep, variant, seeders, databases, files, run>>

\* TestDatabase.destroy()
destroy(i, fail, rmFails) ==
    /\ NoSeedInFlight
    /\ i \in Held
    /\ LET d == destroyInstance(insts[i], i, files, fail, rmFails) IN
       /\ insts' = [insts EXCEPT ![i] = d.rec]
       /\ files' = d.files
       /\ lastCall' = Call("destroy", i, IF d.threw THEN "threw" ELSE "ok", "none", NoError)
    /\ UNCHANGED <<flight, sweep, variant, seeders, databases, run>>

\* Manager.destroy(id)
managerDestroy(id, fail, rmFails) ==
    /\ NoSeedInFlight
    /\ IF id \in DOMAIN databases
       THEN LET i == databases[id]
                d == destroyInstance(insts[i], i, files, fail, rmFails)
            IN  /\ insts' = [insts EXCEPT ![i] = d.rec]
                /\ files' = d.files
                /\ databases' = IF d.threw THEN databases ELSE Drop(databases, {id})
                /\ lastCall' = Call("managerDestroy", i, IF d.threw THEN "threw" ELSE "ok", "none", NoError)
       ELSE /\ UNCHANGED <<insts, files, databases>>
            /\ lastCall' = Call("managerDestroy", 0, "ok", "none", NoError)
    /\ UNCHANGED <<flight, sweep, variant, seeders, run>>

\* Manager.destroyAll() seen once every destroy(id) promise has settled:
\* each destroy runs to its end whatever the others do
destroyAll(failOf, rmOf) ==
    /\ NoSeedInFlight
    /\ LET ids == DOMAIN databases
           d(id) == destroyInstance(insts[databases[id]], databases[id], files, failOf[id], rmOf[id])
           failed == {id \in ids : d(id).threw}
       IN  /\ insts' = [i \in DOMAIN insts |->
                          IF \E id \in ids : databases[id] = i
                          THEN d(CHOOSE id \in ids : databases[id] = i).rec ELSE insts[i]]
           /\ files' = files \ {i \in files : \E id \in ids : databases[id] = i /\ i \notin d(id).files}
           /\ databases' = Drop(databases, ids \ failed)
           /\ lastCall' = Call("destroyAll", 0, IF failed = {} THEN "ok" ELSE "threw", "none", NoError)
    /\ UNCHANGED <<flight, sweep, variant, seeders, run>>

\* the caller is not waiting for a destroyAll()
NoSweepAwaited == sweep.ids = {} \/ sweep.returned

\* Manager.destroyAll(), first part: Array.from(this.databases.keys()).map(id
\* => this.destroy(id)) starts one destroy per registered id; with an empty
\* registry Promise.all([]) resolves at once
destroyAllStart ==
    /\ NoSeedInFlight
    /\ NoSweepAwaited
    /\ sweep.pending = {}
    /\ LET ids == DOMAIN databases IN
       /\ sweep' = [ids |-> ids, pending |-> ids, failed |-> {}, returned |-> ids = {}, reported |-> {}]
       /\ lastCall' = IF ids = {} THEN Call("destroyAll", 0, "ok", "none", NoError) ELSE lastCall
    /\ UNCHANGED <<flight, variant, seeders, insts, databases, files, run>>

\* Promise.all rejects with the reason of the first promise that rejects, and
\* that once
rejectionOf(sw, id, threw) == IF threw /\ ~sw.returned THEN {id} ELSE sw.reported

\* one destroy(id) promise of the destroyAll() settles: the instance is
\* destroyed and, if that did not throw, its entry deleted. Promise.all
\* settles with the first rejection, or when the last promise is fulfilled.
destroySettle(id, fail, rmFails) ==
    /\ id \in sweep.pending
    /\ LET i == databases[id]
           d == destroyInstance(insts[i], i, files, fail, rmFails)
           returns == ~sweep.returned /\ (d.threw \/ sweep.pending = {id})
       IN  /\ insts' = [insts EXCEPT ![i] = d.rec]
           /\ files' = d.files
           /\ databases' = IF d.threw THEN databases ELSE Drop(databases, {id})
           /\ sweep' = [sweep EXCEPT !.pending = @ \ {id},
                                     !.failed = IF d.threw THEN @ \cup {id} ELSE @,
                                     !.returned = @ \/ returns,
                                     !.reported = rejectionOf(sweep, id, d.threw)]
           /\ lastCall' = IF returns
                          THEN Call("destroyAll", 0, IF d.threw THEN "threw" ELSE "ok", "none", NoError)
                          ELSE lastCall
    /\ UNCHANGED <<flight, variant, seeders, run>>

----------------------------------------------------------------------------
(* TestDatabase.seed *)

\* a row or document written to t through the connection; a collection of
\* MongoDB is created by its first document
written(rec, t) == [rec EXCEPT !.rows = @ \cup {t}, !.tables = @ \cup {t}]

\* the table a seed callback writes to
CallbackTable == "A"

\* seed(fn): the callback gets the client and is awaited; what it throws
\* propagates as it is
seedCallback(i, fails, v) ==
    /\ NoSeedInFlight
    /\ i \in Held
    /\ LET g == getClientResult(insts[i])
           live == g.ret = "handle" /\ insts[i].client = "open"
       IN  IF g.threw
           THEN /\ run' = [IdleRun EXCEPT !.pc = "failed", !.inst = i, !.thrown = g.err]
                /\ lastCall' = Call("seed", i, "threw", "none", g.err)
                /\ UNCHANGED insts
           ELSE /\ run' = [IdleRun EXCEPT !.pc = IF fails THEN "failed" ELSE "done", !.inst = i, !.live = live,
                                          !.started = <<"callback">>,
                                          !.finished = IF fails THEN <<>> ELSE <<"callback">>,
                                          !.thrown = IF fails THEN v ELSE NoError]
                /\ lastCall' = Call("seed", i, IF fails THEN "threw" ELSE "ok", "none", IF fails THEN v ELSE NoError)
                /\ insts' = IF live /\ ~fails THEN [insts EXCEPT ![i] = written(@, CallbackTable)] ELSE insts
    /\ UNCHANGED <<flight, sweep, variant, seeders, databases, files>>

afterResolveRunsResolved(i, live, r) ==
    IF r.resolved = <<>>
    THEN [IdleRun EXCEPT !.pc = IF r.thrown # NoError THEN "failed" ELSE "done", !.inst = i, !.live = live, !.thrown = r.thrown]
    ELSE [IdleRun EXCEPT !.pc = "running", !.inst = i, !.live = live, !.order = r.resolved]

\* const sortedSeeders = this.resolveDependencies(seeders): a throw of the
\* resolution leaves seed() before the loop over the seeders
afterResolve(i, live, r) ==
    IF r.thrown # NoError THEN [IdleRun EXCEPT !.pc = "failed", !.inst = i, !.live = live, !.thrown = r.thrown]
    ELSE IF r.resolved = <<>> THEN [IdleRun EXCEPT !.pc = "done", !.inst = i, !.live = live]
    ELSE [IdleRun EXCEPT !.pc = "running", !.inst = i, !.live = live, !.order = r.resolved]

\* seed(list) up to the first await: getClient(), then the resolution
seedList(i, list) ==
    /\ NoSeedInFlight
    /\ i \in Held
    /\ seeders' = list
    /\ LET g == getClientResult(insts[i])
           live == g.ret = "handle" /\ insts[i].client = "open"
           next == afterResolve(i, live, resolveDependencies(list))
       IN  IF g.threw
           THEN /\ run' = [IdleRun EXCEPT !.pc = "failed", !.inst = i, !.thrown = g.err]
                /\ lastCall' = Call("seed", i, "threw", "none", g.err)
           ELSE /\ run' = next
                /\ lastCall' = Call("seed", i, IF next.pc = "failed" THEN "threw" ELSE IF next.pc = "done" THEN "ok" ELSE "pending",
                                    "none", next.thrown)
    /\ UNCHANGED <<flight, sweep, variant, insts, databases, files>>

\* the loop reaches await seeder.seed(client) of the next seeder
seederStart ==
    /\ run.pc = "running"
    /\ run.current = "none"
    /\ run.idx < Len(run.order)
    /\ run' = [run EXCEPT !.idx = @ + 1, !.current = run.order[run.idx + 1].name,
                          !.started = Append(@, run.order[run.idx + 1].name)]
    /\ UNCHANGED <<flight, sweep, variant, seeders, insts, databases, files, lastCall>>

\* the body of the current seeder resolves: its rows are in the database
seederFinish ==
    /\ run.pc = "running"
    /\ run.current # "none"
    /\ LET last == run.idx = Len(run.order) IN
       /\ run' = [run EXCEPT !.current = "none", !.finished = Append(@, run.current),
                             !.pc = IF last THEN "done" ELSE "running"]
       /\ lastCall' = IF last THEN Call("seed", run.inst, "ok", "none", NoError) ELSE lastCall
    /\ insts' = IF run.live THEN [insts EXCEPT ![run.inst] = written(@, run.current)] ELSE insts
    /\ UNCHANGED <<flight, sweep, variant, seeders, databases, files>>

onThrowContinue(r, error) == [r EXCEPT !.current = "none", !.thrown = error]

\* catch (error) { throw ... }: the loop is left at the first failure
onThrow(r, error) == [r EXCEPT !.pc = "failed", !.current = "none", !.thrown = error]

\* the body of the current seeder throws v
seederThrow(v) ==
    /\ run.pc = "running"
    /\ run.current # "none"
    /\ run' = onThrow(run, seederFailure(run.current, v))
    /\ lastCall' = IF run'.pc = "failed" THEN Call("seed", run.inst, "threw", "none", run'.thrown) ELSE lastCall
    /\ UNCHANGED <<flight, sweep, variant, seeders, insts, databases, files>>

----------------------------------------------------------------------------
(* Specifications *)

\* the lists seeded in the lifecycle specification: a valid list given in
\* reverse dependency order, and a list that depends on itself
LifecycleInputs == { <<Seeder("B", <<"A">>), Seeder("A", <<>>)>>, <<Seeder("A", <<"A">>)>> }

Init ==
    /\ variant \in Variants
    /\ sweep = NoSweep
    /\ flight = NoFlight
    /\ seeders = <<>>
    /\ insts = <<>>
    /\ databases = <<>>
    /\ files = {}
    /\ run = IdleRun
    /\ lastCall = NoCall

\* values thrown by seeders and callbacks in the lifecycle specification
LifecycleThrown == {v \in ThrownValues : v.type = "Error" /\ v.codeType = "absent"}

\* the life of one instance from Manager.create on, every operation
Next ==
    \/ \E config \in Configs, id \in IdSpace, outcome \in InitOutcomes : insts = <<>> /\ Fresh(id) /\ create(config, id, outcome)
    \/ \E id \in IdSpace : get(id)
    \/ \E i \in Held : getClient(i)
    \/ \E i \in Held, strategy \in Strategies \cup {"none", "bogus"} : cleanup(i, strategy, {}, FALSE, "none")
    \/ \E i \in Held, fail \in CloseFailures, rmFails \in BOOLEAN :
          DestroyFaultApplies(insts[i], i, files, fail, rmFails) /\ destroy(i, fail, rmFails)
    \/ \E id \in IdSpace, fail \in CloseFailures, rmFails \in BOOLEAN :
          /\ id \in DOMAIN databases => DestroyFaultApplies(insts[databases[id]], databases[id], files, fail, rmFails)
          /\ id \notin DOMAIN databases => fail = "none" /\ ~rmFails
          /\ managerDestroy(id, fail, rmFails)
    \/ \E failOf \in [DOMAIN databases -> CloseFailures], rmOf \in [DOMAIN databases -> BOOLEAN] :
          /\ \A id \in DOMAIN databases : DestroyFaultApplies(insts[databases[id]], databases[id], files, failOf[id], rmOf[id])
          /\ destroyAll(failOf, rmOf)
    \/ \E i \in Held, fails \in BOOLEAN, v \in LifecycleThrown : seedCallback(i, fails, v)
    \/ \E i \in Held, list \in LifecycleInputs : seedList(i, list)
    \/ seederStart
    \/ seederFinish
    \/ \E v \in LifecycleThrown : seederThrow(v)

Spec == Init /\ [][Next]_vars

\* create() without arguments: config = {}
DefaultConfig == [databaseUrl |-> "none", cleanup |-> "none"]

\* the manager and its registry over several instances
NextManager ==
    \/ \E id \in IdSpace, outcome \in InitOutcomes : Fresh(id) /\ create(DefaultConfig, id, outcome)
    \/ \E id \in IdSpace : get(id)
    \/ \E i \in Held, fail \in CloseFailures, rmFails \in BOOLEAN :
          DestroyFaultApplies(insts[i], i, files, fail, rmFails) /\ destroy(i, fail, rmFails)
    \/ \E id \in IdSpace, fail \in CloseFailures, rmFails \in BOOLEAN :
          /\ id \in DOMAIN databases => DestroyFaultApplies(insts[databases[id]], databases[id], files, fail, rmFails)
          /\ id \notin DOMAIN databases => fail = "none" /\ ~rmFails
          /\ managerDestroy(id, fail, rmFails)
    \/ \E failOf \in [DOMAIN databases -> CloseFailures], rmOf \in [DOMAIN databases -> BOOLEAN] :
          /\ \A id \in DOMAIN databases : DestroyFaultApplies(insts[databases[id]], databases[id], files, failOf[id], rmOf[id])
          /\ destroyAll(failOf, rmOf)

SpecManager == Init /\ [][NextManager]_vars

\* one instance the test constructs and initializes by itself, and the
\* data-access calls on it before and after initialize() has succeeded
NextInstance ==
    \/ \E config \in Configs, id \in IdSpace : insts = <<>> /\ construct(config, id)
    \/ \E i \in Held, outcome \in InitOutcomes : initializeCall(i, outcome)
    \/ \E i \in Held : getClient(i)
    \/ \E i \in Held, fails \in BOOLEAN, v \in LifecycleThrown : seedCallback(i, fails, v)
    \/ \E i \in Held, list \in LifecycleInputs : seedList(i, list)
    \/ seederStart
    \/ seederFinish
    \/ \E v \in LifecycleThrown : seederThrow(v)

SpecInstance == Init /\ [][NextInstance]_vars

\* one instance the test constructs, and initialize() on it with every
\* combination of stage faults, retried after a failure
NextInit ==
    \/ \E config \in Configs, id \in IdSpace : insts = <<>> /\ construct(config, id)
    \/ \E i \in Held, st \in InitStages : initializeStaged(i, st)
    \/ \E i \in Held : getClient(i)

SpecInit == Init /\ [][NextInit]_vars

\* destroyAll() step by step: instances are created, before the call or by
\* another caller while it runs, destroyAll() starts the destroys of the
\* registered ones, and these settle in any order
NextSweep ==
    \/ \E id \in IdSpace, outcome \in InitOutcomes : Fresh(id) /\ create(DefaultConfig, id, outcome)
    \/ destroyAllStart
    \/ \E id \in IdSpace, fail \in CloseFailures, rmFails \in BOOLEAN :
          /\ id \in sweep.pending
          /\ DestroyFaultApplies(insts[databases[id]], databases[id], files, fail, rmFails)
          /\ destroySettle(id, fail, rmFails)

SpecSweep == Init /\ [][NextSweep]_vars

\* a ready instance as create({databaseUrl: explicit}) leaves it
ReadyInstance ==
    [initialize(newTestDatabase(1, IF variant = "mongoose" THEN "mongodb://explicit" ELSE ":memory:",
                                [databaseUrl |-> "explicit", cleanup |-> "none"]), "ok") EXCEPT !.held = TRUE]

InitReady ==
    /\ variant \in Variants
    /\ sweep = NoSweep
    /\ flight = NoFlight
    /\ insts = <<ReadyInstance>>
    /\ databases = Put(<<>>, 1, 1)
    /\ files = {}
    /\ run = IdleRun
    /\ lastCall = Call("create", 1, "ok", "none", NoError)

\* the caller puts one more seeder with a fresh name on the list it will
\* hand to seed(); budget bounds the dependency names declared in the list
addSeeder(n, d, budget) ==
    /\ run.pc = "idle"
    /\ n \notin Range(Names(seeders))
    /\ CountDependencies(seeders) + Len(d) <= budget
    /\ seeders' = Append(seeders, Seeder(n, d))
    /\ UNCHANGED <<flight, sweep, variant, insts, databases, files, run, lastCall>>

\* one seed(list) call on a ready instance, followed step by step
InitSeed == InitReady /\ seeders = <<>>

NextSeed ==
    \/ \E n \in SeederNames, d \in DistinctSeqs(DependencyNames, MaxRunEdges) : addSeeder(n, d, MaxRunEdges)
    \/ run.pc = "idle" /\ seedList(1, seeders)
    \/ seederStart
    \/ seederFinish
    \/ \E v \in ThrownValues : seederThrow(v)

SpecSeed == InitSeed /\ [][NextSeed]_vars

\* the resolution as a function of the list: every list, then its result
InitResolve == InitReady /\ seeders = <<>>

resolve ==
    /\ run.pc = "idle"
    /\ LET r == resolveDependencies(seeders) IN
       run' = [IdleRun EXCEPT !.pc = "resolved", !.inst = 1, !.order = r.resolved, !.thrown = r.thrown]
    /\ UNCHANGED <<flight, sweep, variant, seeders, insts, databases, files, lastCall>>

NextResolve ==
    \/ \E n \in SeederNames, d \in DistinctSeqs(DependencyNames, MaxEdges) : addSeeder(n, d, MaxEdges)
    \/ resolve

SpecResolve == InitResolve /\ [][NextResolve]_vars

\* the configs of the cleanup specification: every configured strategy
CleanupConfigs == [databaseUrl : UrlOptions, cleanup : Strategies \cup {"none"}]

\* the instance Manager.create(config) returns, ready
InitCleanup ==
    /\ variant \in Variants
    /\ sweep = NoSweep
    /\ flight = NoFlight
    /\ seeders = <<>>
    /\ \E config \in CleanupConfigs :
          /\ insts = <<[initialize(newTestDatabase(1, generateDatabaseUrl(config.databaseUrl), config), "ok") EXCEPT !.held = TRUE]>>
          /\ files = IF generateDatabaseUrl(config.databaseUrl) = "file:tmp" THEN {1} ELSE {}
    /\ databases = Put(<<>>, 1, 1)
    /\ run = IdleRun
    /\ lastCall = Call("create", 1, "ok", "none", NoError)

\* an insert needs the open connection and, on the relational backends, the table
canInsert(rec, t) == rec.client = "open" /\ (variant = "mongoose" \/ t \in rec.tables)

\* the test writes a row or document to a user table through the connection;
\* every connection to the same database sees it
insert(i, t) ==
    /\ i \in Held
    /\ t \in UserTables
    /\ LET can == canInsert(insts[i], t) IN
       /\ insts' = IF can
                   THEN [k \in DOMAIN insts |-> IF k = i \/ k \in peers(insts[i]) THEN written(insts[k], t) ELSE insts[k]]
                   ELSE insts
       /\ lastCall' = Call("insert", i, IF can THEN "ok" ELSE "threw", t, NoError)
    /\ UNCHANGED <<flight, sweep, variant, seeders, databases, files, run>>

CleanupFaults == {"none", "disconnect", "rebuild"}

\* at most this many deletions fail in one truncate pass
MaxFailures == 1

\* the deletion faults a truncate pass can meet on the instance
DeletionFaults == {F \in SUBSET Range(targets(insts[1])) : Cardinality(F) <= MaxFailures}

\* a ready instance, rows written to it, and every cleanup call with every
\* backend fault it can meet
\* the tables the test writes to: two plain ones and the oddly named one
InsertedTables == UserTables \ {"C"}

NextCleanup ==
    \/ \E t \in InsertedTables : insert(1, t)
    \/ \E strategy \in Strategies \cup {"none", "bogus"} :
          \E failing \in DeletionFaults, listFails \in BOOLEAN, fail \in CleanupFaults :
            CleanupFaultApplies(insts[1], strategy, failing, listFails, fail) /\ cleanup(1, strategy, failing, listFails, fail)

SpecCleanup == InitCleanup /\ [][NextCleanup]_vars

\* the error WithTransaction / WithTypeORMTransaction throws after the test
\* method to force the rollback
Sentinel == PlainError(<<"__ROLLBACK__">>)

\* how the wrapped test method ends: it returns (NoError) or throws
TestBodyOutcomes == {NoError, PlainError(<<"boom">>), Sentinel}

\* the callback handed to client.$transaction / dataSource.transaction: try
\* { await method(); throw sentinel } catch (error) { if (error.message ===
\* '__ROLLBACK__') return; throw error }. The value the callback rejects
\* with, NoError when it returns
wrappedCallback(body) ==
    LET thrown == IF body = NoError THEN Sentinel ELSE body IN
    IF thrown.msg = <<"__ROLLBACK__">> THEN NoError ELSE thrown

\* client.$transaction(callback) / dataSource.transaction(callback): the
\* writes made through the transactional client are committed when the
\* callback returns and rolled back when it rejects
transaction(rec, W, rejection) ==
    IF rejection = NoError THEN [rec EXCEPT !.rows = @ \cup W, !.tables = @ \cup W] ELSE rec

\* a test method wrapped with WithTransaction() / WithTypeORMTransaction()
\* that writes to the tables W and ends as body says; i = 0: no global test
\* database was set up by the class decorator
withTransaction(i, W, body) ==
    /\ NoSeedInFlight
    /\ variant # "mongoose"
    /\ i \in Held \cup {0}
    /\ IF i = 0
       THEN /\ lastCall' = Call("withTransaction", 0, "threw", "none", PlainError(<<"No test database available">>))
            /\ insts' = insts
       ELSE LET g == getClientResult(insts[i])
                rejection == wrappedCallback(body)
            IN  IF g.threw
                THEN /\ lastCall' = Call("withTransaction", i, "threw", "none", g.err)
                     /\ insts' = insts
                ELSE /\ insts[i].client = "open"
                     /\ W \subseteq insts[i].tables
                     /\ insts' = [k \in DOMAIN insts |->
                                    IF k = i \/ k \in peers(insts[i]) THEN transaction(insts[k], W, rejection) ELSE insts[k]]
                     /\ lastCall' = Call("withTransaction", i, IF rejection = NoError THEN "ok" ELSE "threw", "none", rejection)
    /\ UNCHANGED <<flight, sweep, variant, seeders, databases, files, run>>

\* the ready instance the class decorator got from Manager.create(config),
\* rows written directly and by wrapped test methods
NextTransaction ==
    \/ \E t \in InsertedTables : insert(1, t)
    \/ \E i \in {0, 1}, W \in SUBSET InsertedTables, body \in TestBodyOutcomes : withTransaction(i, W, body)

SpecTransaction == InitCleanup /\ [][NextTransaction]_vars

\* cleanup('recreate') on a relational backend up to its first await:
\* adapter.cleanup and reset() return at once without a client, else reset()
\* awaits client.$disconnect() / dataSource.destroy()
resetStart(i) ==
    /\ NoSeedInFlight
    /\ variant # "mongoose"
    /\ i \in Held
    /\ flight.reset = "idle"
    /\ IF insts[i].client = "null"
       THEN lastCall' = Call("cleanup", i, "ok", "recreate", NoError) /\ flight' = flight
       ELSE lastCall' = lastCall /\ flight' = [flight EXCEPT !.reset = "disconnect"]
    /\ UNCHANGED <<variant, seeders, insts, databases, files, run, sweep>>

\* reset() resumes after the disconnect. An in-memory database is gone with
\* its connection, and PrismaAdapter puts a new client in place at once; for
\* a file, reset() awaits fs.pathExists / fs.remove; otherwise it awaits
\* applyMigrations (Prisma) or createDataSourceOptions (TypeORM)
resetDisconnected(i) ==
    /\ flight.reset = "disconnect"
    /\ LET rec == insts[i]
           closed == IF rec.client = "null" THEN rec ELSE [rec EXCEPT !.client = "object"]
       IN  IF rec.url = "file:tmp"
           THEN insts' = [insts EXCEPT ![i] = closed] /\ flight' = [flight EXCEPT !.reset = "remove"]
           ELSE /\ insts' = [insts EXCEPT ![i] = [closed EXCEPT !.rows = {}, !.tables = {},
                                                  !.client = IF variant = "prisma" THEN "object" ELSE @]]
                /\ flight' = [flight EXCEPT !.reset = "rebuild"]
    /\ UNCHANGED <<variant, seeders, databases, files, run, lastCall, sweep>>

\* reset() resumes after the database file was removed
resetRemoved(i) ==
    /\ flight.reset = "remove"
    /\ insts' = [insts EXCEPT ![i] = [@ EXCEPT !.rows = {}, !.tables = {}]]
    /\ files' = files \ {i}
    /\ flight' = [flight EXCEPT !.reset = "rebuild"]
    /\ UNCHANGED <<variant, seeders, databases, run, lastCall, sweep>>

\* reset() resumes after applyMigrations (Prisma: the schema is pushed, then
\* this.client.$connect() is called, which throws on a null client) or after
\* createDataSourceOptions (TypeORM: this.dataSource = new DataSource(...),
\* then dataSource.initialize() is awaited)
resetRebuilt(i) ==
    /\ flight.reset = "rebuild"
    /\ IF variant = "prisma"
       THEN /\ insts' = [insts EXCEPT ![i] = [@ EXCEPT !.tables = SchemaTables]]
            /\ files' = IF insts[i].url = "file:tmp" THEN files \cup {i} ELSE files
            /\ IF insts[i].client = "null"
               THEN /\ flight' = [flight EXCEPT !.reset = "idle"]
                    /\ lastCall' = Call("cleanup", i, "threw", "recreate",
                                        handle(PlainError(<<"Failed to reset database">>), <<"cleanup:", "recreate">>).value)
               ELSE flight' = [flight EXCEPT !.reset = "connect"] /\ lastCall' = lastCall
       ELSE /\ insts' = [insts EXCEPT ![i] = [@ EXCEPT !.client = "object"]]
            /\ flight' = [flight EXCEPT !.reset = "connect"]
            /\ UNCHANGED <<files, lastCall>>
    /\ UNCHANGED <<variant, seeders, databases, run, sweep>>

\* reset() resumes after client.$connect() / dataSource.initialize(): the
\* object the adapter holds is connected. Prisma: reset() and the cleanup are
\* done. TypeORM: dataSource.synchronize(true) is awaited next
resetConnected(i) ==
    /\ flight.reset = "connect"
    /\ LET held == insts[i].client # "null" IN
       /\ insts' = [insts EXCEPT ![i] = [@ EXCEPT !.client = IF held THEN "open" ELSE "null", !.fkOn = TRUE]]
       /\ files' = IF variant = "typeorm" /\ insts[i].url = "file:tmp" THEN files \cup {i} ELSE files
       /\ IF variant = "prisma"
          THEN /\ flight' = [flight EXCEPT !.reset = "idle"]
               /\ lastCall' = Call("cleanup", i, "ok", "recreate", NoError)
          ELSE IF held
          THEN flight' = [flight EXCEPT !.reset = "synchronize"] /\ lastCall' = lastCall
          ELSE /\ flight' = [flight EXCEPT !.reset = "idle"]
               /\ lastCall' = Call("cleanup", i, "threw", "recreate",
                                   handle(PlainError(<<"Failed to reset database">>), <<"cleanup:", "recreate">>).value)
    /\ UNCHANGED <<variant, seeders, databases, run, sweep>>

\* TypeORMAdapter.reset() resumes after synchronize(true): the schema is
\* there, reset() and the cleanup are done
resetSynchronized(i) ==
    /\ flight.reset = "synchronize"
    /\ insts' = [insts EXCEPT ![i] = [@ EXCEPT !.tables = SchemaTables]]
    /\ flight' = [flight EXCEPT !.reset = "idle"]
    /\ lastCall' = Call("cleanup", i, "ok", "recreate", NoError)
    /\ UNCHANGED <<variant, seeders, databases, files, run, sweep>>

\* destroy() after adapter.close(): it awaits fs.pathExists / fs.remove for
\* a file: URL, and has returned otherwise
destroyAfterClose(i, rec) ==
    IF rec.url = "file:tmp"
    THEN /\ insts' = [insts EXCEPT ![i] = rec]
         /\ flight' = [flight EXCEPT !.destroy = "remove"]
         /\ lastCall' = lastCall
    ELSE /\ insts' = [insts EXCEPT ![i] = [rec EXCEPT !.destroyed = TRUE]]
         /\ flight' = [flight EXCEPT !.destroy = "idle"]
         /\ lastCall' = Call("destroy", i, "ok", "none", NoError)

\* destroy() on a relational backend up to its first await: close() awaits
\* client.$disconnect() when there is a client (Prisma) or
\* dataSource.destroy() when the dataSource is initialized (TypeORM)
destroyStart(i) ==
    /\ NoSeedInFlight
    /\ variant # "mongoose"
    /\ i \in Held
    /\ flight.destroy = "idle"
    /\ IF (variant = "prisma" /\ insts[i].client # "null") \/ (variant = "typeorm" /\ insts[i].client = "open")
       THEN insts' = insts /\ flight' = [flight EXCEPT !.destroy = "close"] /\ lastCall' = lastCall
       ELSE destroyAfterClose(i, insts[i])
    /\ UNCHANGED <<variant, seeders, databases, files, run, sweep>>

\* close() resumes after the disconnect: this.client = null / this.dataSource = null
destroyClosed(i) ==
    /\ flight.destroy = "close"
    /\ destroyAfterClose(i, [insts[i] EXCEPT !.client = "null"])
    /\ UNCHANGED <<variant, seeders, databases, files, run, sweep>>

\* destroy() resumes after the database file was removed, and returns
\* (fs.pathExists is false after a reset() removed the file)
destroyRemoved(i) ==
    /\ flight.destroy = "remove"
    /\ insts' = [insts EXCEPT ![i] = [@ EXCEPT !.destroyed = TRUE]]
    /\ files' = files \ {i}
    /\ flight' = [flight EXCEPT !.destroy = "idle"]
    /\ lastCall' = Call("destroy", i, "ok", "none", NoError)
    /\ UNCHANGED <<variant, seeders, databases, run, sweep>>

\* the ready instance Manager.create(config) returned, rows in it, and a
\* cleanup('recreate') and a destroy() on it, each resuming after its awaits
\* whenever the event loop gets to it
NextRace ==
    \/ \E t \in InsertedTables : flight = NoFlight /\ insert(1, t)
    \/ resetStart(1)
    \/ resetDisconnected(1)
    \/ resetRemoved(1)
    \/ resetRebuilt(1)
    \/ resetConnected(1)
    \/ resetSynchronized(1)
    \/ destroyStart(1)
    \/ destroyClosed(1)
    \/ destroyRemoved(1)

SpecRace == InitCleanup /\ [][NextRace]_vars

\* configurations of the isolation specification: no locator, the in-memory
\* marker, or a file or server the caller names
IsolationConfigs ==
    [databaseUrl : UrlOptions \cup (IF variant = "mongoose" THEN {} ELSE {"file:shared.db"}), cleanup : {"none"}]

\* instances created from one and the same configuration, and the rows the
\* test writes through each of them
NextIsolation ==
    \/ \E config \in IsolationConfigs, id \in IdSpace, outcome \in InitOutcomes :
          /\ insts # <<>> => generateDatabaseUrl(config.databaseUrl) = insts[1].url
          /\ Fresh(id)
          /\ create(config, id, outcome)
    \/ \E i \in Held, t \in InsertedTables : insert(i, t)

SpecIsolation == Init /\ [][NextIsolation]_vars

\* the millisecond timestamps and the random suffixes generateId() draws from
MaxClock == 2

MaxSuffix == 2

\* generateId(): `test-db-${Date.now()}-${Math.random().toString(36).substring(7)}`
generateId(now, suffix) == <<"test-db", now, suffix>>

\* the clock of the process does not run backwards
NotBefore(now) == \A k \in DOMAIN insts : insts[k].id[2] <= now

\* instances created with the ids generateId() yields, nothing assumed of
\* the clock's resolution or of the random suffixes
NextIds ==
    \E now \in 1..MaxClock, suffix \in 1..MaxSuffix, outcome \in InitOutcomes :
       NotBefore(now) /\ create(DefaultConfig, generateId(now, suffix), outcome)

SpecIds == Init /\ [][NextIds]_vars

----------------------------------------------------------------------------
(* Vocabulary of the properties *)

NameSet(list) == Range(Names(list))

\* the dependency names the seeder called n declares in list
DeclaredBy(list, n) == UNION {Range(list[k].dependencies) : k \in {j \in DOMAIN list : list[j].name = n}}

\* the names reached from frontier along declared dependencies
RECURSIVE ReachFrom(_, _, _)
ReachFrom(list, frontier, seen) ==
    LET next == (UNION {DeclaredBy(list, n) : n \in frontier}) \ seen IN
    IF next = {} THEN seen ELSE ReachFrom(list, next, seen \cup next)

TransitiveDependencies(list, n) == ReachFrom(list, {n}, {})

AllDeclared(list) == \A k \in DOMAIN list : Range(list[k].dependencies) \subseteq NameSet(list)

OnCycle(list, n) == n \in TransitiveDependencies(list, n)

HasCycle(list) == \E n \in NameSet(list) : OnCycle(list, n)

ValidList(list) == AllDeclared(list) /\ ~HasCycle(list)

Independent(list, a, b) ==
    a # b /\ a \notin TransitiveDependencies(list, b) /\ b \notin TransitiveDependencies(list, a)

\* pairs <<dependent, missing name>> of the list
MissingPairs(list) ==
    {<<list[k].name, m>> : k \in DOMAIN list, m \in DependencyNames} \cap
    {p \in SeederNames \X DependencyNames : p[2] \in DeclaredBy(list, p[1]) /\ p[2] \notin NameSet(list)}

\* the seeder at position j is a direct or transitive dependency of a seeder
\* that stands before it in the list
PulledForward(list, j) == \E k \in 1..(j - 1) : list[j].name \in TransitiveDependencies(list, list[k].name)

Resolved == run.pc = "resolved"

Position(n) == IndexOf(Names(run.order), n)

IsCircularError(e) ==
    IF variant = "prisma"
    THEN e.type = "Error" /\ Len(e.msg) = 2 /\ e.msg[1] = "Circular dependency detected in seeders: "
    ELSE e.type = "SeedingError" /\ Len(e.msg) >= 5 /\ e.msg[4] = CircularText

IsMissingDependencyError(e) ==
    IF variant = "prisma"
    THEN e.type = "Error" /\ Len(e.msg) = 2 /\ e.msg[1] = "Seeder not found: "
    ELSE e.type = "SeedingError" /\ Len(e.msg) >= 5 /\ e.msg[5] = "' which was not found" /\ e.msg[4] # CircularText

\* the call ended in a state error, thrown or as the rejection of the promise returned
FailsWithStateError(c) == (c.result = "threw" \/ c.ret = "rejected") /\ IsStateError(c.err)

----------------------------------------------------------------------------
(* Instance and registry lifecycle *)

\* C1: after destroy() has completed on an instance, every later
\* getClient()/getConnection()/getDataSource(), seed() or cleanup() call on it
\* fails with a state error: the last call on a destroyed instance, when it is
\* one of these, ended in a state error (so no handle, no seeder body, no
\* cleanup step).
C1_DestroyedInstanceFailsWithStateError ==
    (lastCall.op \in {"getClient", "seed", "cleanup"} /\ lastCall.inst \in DOMAIN insts /\ insts[lastCall.inst].destroyed)
        => FailsWithStateError(lastCall)

\* C2: destroy() twice in a row on the same instance: when the last call is a
\* completed destroy() of an instance and the step is another destroy() of it,
\* the second call completes without error and leaves the instance, the files
\* and the registry as they were.
C2_SecondDestroyChangesNothing ==
    [][(lastCall.op = "destroy" /\ lastCall.result = "ok" /\ lastCall'.op = "destroy" /\ lastCall'.inst = lastCall.inst)
        => (lastCall'.result = "ok" /\ insts' = insts /\ files' = files /\ databases' = databases)]_vars

\* C3: the registry holds only live instances: no id of the registry leads to
\* an instance whose destroy() has completed, whichever way it was destroyed.
C3_RegistryHoldsOnlyLiveInstances ==
    \A id \in DOMAIN databases : ~insts[databases[id]].destroyed

\* C4: a create() whose adapter initialization fails throws the propagated
\* error and leaves the registry exactly as it was: no entry leads to the
\* instance just constructed, and the other instances are untouched.
C4_FailedCreateLeavesRegistry ==
    [][(lastCall'.op = "create" /\ Len(insts') = Len(insts) + 1 /\ ~insts'[Len(insts')].isInitialized)
        => /\ lastCall'.result = "threw"
           /\ lastCall'.err # NoError
           /\ databases' = databases
           /\ \A id \in DOMAIN databases' : databases'[id] # Len(insts')
           /\ SubSeq(insts', 1, Len(insts)) = insts]_vars

\* a create() has just failed while another instance stays registered
C4_Witness ==
    /\ lastCall.op = "create" /\ lastCall.result = "threw"
    /\ Len(insts) = 2 /\ ~insts[2].isInitialized
    /\ DOMAIN databases # {} /\ \A id \in DOMAIN databases : databases[id] = 1

----------------------------------------------------------------------------
(* Dependency resolution *)

\* C5: for every list of uniquely named seeders whose dependency names all
\* occur in the list and form no cycle, in every order of the list, the
\* resolution succeeds, returns the seeders of the list, and places every
\* seeder after all of its direct and transitive dependencies.
C5_TopologicalOrder ==
    (Resolved /\ ValidList(seeders)) =>
        /\ run.thrown = NoError
        /\ Len(run.order) = Len(seeders) /\ Range(run.order) = Range(seeders)
        /\ \A n \in NameSet(seeders) : \A d \in TransitiveDependencies(seeders, n) :
              Position(d) > 0 /\ Position(d) < Position(n)

\* a chain given in reverse order comes out dependencies first
C5_Witness ==
    /\ Resolved
    /\ seeders = <<Seeder("C", <<"B">>), Seeder("B", <<"A">>), Seeder("A", <<>>)>>
    /\ Names(run.order) = <<"A", "B", "C">>

NamedSeeder(e) == IF Len(e.msg) >= 2 THEN e.msg[2] ELSE "none"

\* C7 as stated: a list whose dependency graph contains a cycle fails with a
\* circular-dependency error naming a seeder of the cycle.
C7_CycleFailsCircular ==
    (Resolved /\ HasCycle(seeders)) =>
        (IsCircularError(run.thrown) /\ NamedSeeder(run.thrown) \in NameSet(seeders) /\ OnCycle(seeders, NamedSeeder(run.thrown)))

\* C7 amended: a list whose dependency names all occur in the list and whose
\* dependency graph contains a cycle fails with a circular-dependency error
\* naming a seeder of a cycle, the one whose visit was entered twice.
C7_CycleOfDeclaredFailsCircular ==
    (Resolved /\ AllDeclared(seeders) /\ HasCycle(seeders)) =>
        (IsCircularError(run.thrown) /\ NamedSeeder(run.thrown) \in NameSet(seeders) /\ OnCycle(seeders, NamedSeeder(run.thrown)))

\* a cycle of three is detected back at the seeder the walk started from
C7_Witness ==
    /\ Resolved
    /\ seeders = <<Seeder("A", <<"B">>), Seeder("B", <<"C">>), Seeder("C", <<"A">>)>>
    /\ IsCircularError(run.thrown)
    /\ NamedSeeder(run.thrown) = "A"

\* C8: a list in which a seeder declares a dependency name that no seeder
\* carries fails with a missing-dependency error whose message names both a
\* dependent seeder and the missing name it declares.
C8_MissingDependencyNamesBoth ==
    (Resolved /\ MissingPairs(seeders) # {}) =>
        /\ IsMissingDependencyError(run.thrown)
        /\ \E p \in MissingPairs(seeders) : p[1] \in Range(run.thrown.msg) /\ p[2] \in Range(run.thrown.msg)

----------------------------------------------------------------------------
(* seed(list) step by step *)

\* C9: when the resolution of seed(list) fails, the call has failed with the
\* resolution error and no seeder body has started or finished and no row was
\* written, wherever the faulty seeder stands in the list.
C9_NoBodyRunsOnResolutionFailure ==
    (run.pc # "idle" /\ resolveDependencies(seeders).thrown # NoError) =>
        /\ run.pc = "failed"
        /\ run.thrown = resolveDependencies(seeders).thrown
        /\ run.started = <<>> /\ run.finished = <<>>
        /\ insts[1].rows = {}
        /\ lastCall = Call("seed", 1, "threw", "none", run.thrown)

\* the faulty seeder stands last, behind two seeders already resolved
C9_Witness ==
    /\ run.pc = "failed"
    /\ Len(seeders) = 3
    /\ Len(resolveDependencies(seeders).resolved) = 2
    /\ IsMissingDependencyError(run.thrown)
    /\ run.started = <<>>

\* C10: the seeders of one seed(list) call run one at a time in resolved
\* order: the started ones are a prefix of the resolved order and at most the
\* last of them is unfinished; once a body has thrown the call has failed, the
\* seeders after the k-th were never started, and the rows of the first k-1
\* are in the database.
C10_SequentialAbortNoRollback ==
    LET names == Names(run.order)
        k == Len(run.started)
        f == Len(run.finished)
    IN  /\ k <= Len(names) /\ run.started = SubSeq(names, 1, k)
        /\ f <= k /\ k <= f + 1 /\ run.finished = SubSeq(names, 1, f)
        /\ (run.current # "none") <=> (run.pc = "running" /\ k = f + 1)
        /\ run.thrown # NoError => run.pc = "failed"
        /\ (run.pc = "failed" /\ k > 0) =>
              /\ f = k - 1
              /\ lastCall.op = "seed" /\ lastCall.result = "threw" /\ lastCall.err = run.thrown
        /\ run.pc = "done" => (run.finished = names /\ lastCall.result = "ok")
        /\ insts[1].rows = Range(run.finished)

\* the second of three seeders has thrown: the first one's rows stay, the
\* third was never started
C10_Witness ==
    /\ run.pc = "failed"
    /\ Len(run.order) = 3
    /\ Len(run.started) = 2
    /\ insts[1].rows = {run.started[1]}

----------------------------------------------------------------------------
(* Errors of seed(list) *)

\* the seeder whose body threw
FailedSeeder == run.started[Len(run.started)]

\* C11: the error seed(list) raises when a seeder body throws carries the
\* name of that seeder, in its message or in its details, whatever the body
\* threw and on every backend variant.
C11_SeederFailureCarriesName ==
    (run.pc = "failed" /\ run.started # <<>>) =>
        FailedSeeder \in Range(run.thrown.msg) \cup Range(run.thrown.context)

----------------------------------------------------------------------------
(* Cleanup strategies *)

\* a ready instance: initialized, connection open
Ready(rec) == rec.isInitialized /\ rec.client = "open" /\ ~rec.destroyed

\* what a cleanup may mutate: schema, rows, constraint enforcement, connection
Store(rec) == [tables |-> rec.tables, rows |-> rec.rows, fkOn |-> rec.fkOn, client |-> rec.client, server |-> rec.server]

\* C12: on a ready instance cleanup(s) with s none of 'transaction',
\* 'truncate', 'recreate' fails with a ConfigurationError and leaves rows,
\* schema, constraint enforcement, connection and files as they were.
C12_InvalidStrategyMutatesNothing ==
    [][(Ready(insts[1]) /\ cleanup(1, "bogus", {}, FALSE, "none"))
        => /\ lastCall'.result = "threw"
           /\ lastCall'.err.type = "ConfigurationError"
           /\ Store(insts'[1]) = Store(insts[1])
           /\ insts'[1].touched = insts[1].touched
           /\ files' = files]_vars

\* cleanup('bogus') has just failed on an instance that holds rows
C12_Witness ==
    /\ lastCall.op = "cleanup" /\ lastCall.result = "threw"
    /\ lastCall.err.type = "ConfigurationError"
    /\ Ready(insts[1])
    /\ insts[1].rows # {}

\* cleanup('truncate') runs on the ready instance with the given backend faults
TruncateStep(failing, listFails) ==
    /\ lastCall'.ret = "truncate"
    /\ Ready(insts[1])
    /\ CleanupFaultApplies(insts[1], "truncate", failing, listFails, "none")
    /\ cleanup(1, "truncate", failing, listFails, "none")

\* C13: after cleanup('truncate') succeeds on a ready instance every user
\* table or collection holds zero rows, the schema is the one before the
\* call, and no internal or system catalog object was deleted from.
C13_TruncateEmptiesUserTablesOnly ==
    [][\A failing \in DeletionFaults, listFails \in BOOLEAN :
          (TruncateStep(failing, listFails) /\ lastCall'.result = "ok")
            => /\ insts'[1].rows \cap UserTables = {}
               /\ insts'[1].tables = insts[1].tables
               /\ insts'[1].touched \cap SystemObjects = {}]_vars

\* C14: on the relational backends, whenever cleanup('truncate') returns,
\* with success or with the error of a failed deletion, foreign-key
\* enforcement is on again.
C14_ForeignKeysOnAgain ==
    [][\A failing \in DeletionFaults, listFails \in BOOLEAN :
          (variant # "mongoose" /\ TruncateStep(failing, listFails))
            => insts'[1].fkOn]_vars

\* C15: on every backend a failed deletion does not abort the truncate pass:
\* the deletion of every other table or collection of the pass is attempted.
C15_TruncateBestEffort ==
    [][\A failing \in DeletionFaults :
          TruncateStep(failing, FALSE)
            => insts'[1].touched = Range(targets(insts[1]))]_vars

\* the previous call was a cleanup('truncate') that succeeded with no deletion failing
TruncatedBefore ==
    /\ lastCall.op = "cleanup" /\ lastCall.ret = "truncate" /\ lastCall.result = "ok"
    /\ insts[1].rows \cap insts[1].touched = {}

\* what a second cleanup('truncate') does to the instance, no deletion failing
SecondTruncate == adapterCleanup(insts[1], cleanupStrategy(insts[1], "truncate"), {}, FALSE, "none")

\* C16: of two consecutive cleanup('truncate') calls on an instance that
\* received rows, the second succeeds as the first did and leaves the state
\* the first left: no row in any user table, the same schema, the same
\* connection.
C16_TruncateIdempotent ==
    (Ready(insts[1]) /\ TruncatedBefore)
        => /\ ~SecondTruncate.threw
           /\ Store(SecondTruncate.rec) = Store(insts[1])
           /\ SecondTruncate.rec.rows \cap UserTables = {}

\* C17: after cleanup('recreate') succeeds on a ready instance no row is
\* left, the connection is open, the schema of the configuration is present
\* again, and an insert into any user table succeeds right away.
C17_RecreateGivesFreshDatabase ==
    [][\A fail \in CleanupFaults :
          (/\ lastCall'.ret = "recreate" /\ lastCall'.result = "ok"
           /\ Ready(insts[1])
           /\ cleanup(1, "recreate", {}, FALSE, fail))
            => /\ insts'[1].rows = {}
               /\ insts'[1].client = "open"
               /\ SchemaTables \subseteq insts'[1].tables
               /\ \A t \in UserTables : canInsert(insts'[1], t)]_vars

\* cleanup('recreate') has just succeeded and left an empty, usable database
C17_Witness ==
    /\ lastCall.op = "cleanup" /\ lastCall.ret = "recreate" /\ lastCall.result = "ok"
    /\ Ready(insts[1])
    /\ insts[1].rows = {}
    /\ \A t \in UserTables : canInsert(insts[1], t)

\* cleanup('transaction') runs on the ready instance with the given backend faults
TransactionStep(failing, listFails) ==
    /\ lastCall'.ret = "transaction"
    /\ Ready(insts[1])
    /\ CleanupFaultApplies(insts[1], "transaction", failing, listFails, "none")
    /\ cleanup(1, "transaction", failing, listFails, "none")

\* C18: cleanup('transaction') is a no-op at the adapter level on every
\* backend: it succeeds and changes neither rows, schema, constraint
\* enforcement nor connection, and deletes from nothing.
C18_TransactionIsNoOp ==
    [][\A failing \in DeletionFaults, listFails \in BOOLEAN :
          TransactionStep(failing, listFails)
            => /\ lastCall'.result = "ok"
               /\ Store(insts'[1]) = Store(insts[1])
               /\ insts'[1].touched = insts[1].touched]_vars

\* C18 as the code has it: a no-op on Prisma and TypeORM; on Mongoose the
\* call runs the truncate pass over the collections.
C18_TransactionNoOpOnRelational ==
    [][\A failing \in DeletionFaults, listFails \in BOOLEAN :
          TransactionStep(failing, listFails)
            => IF variant = "mongoose"
               THEN /\ insts'[1] = truncateAll(insts[1], failing, listFails).rec
                    /\ lastCall'.result = (IF listFails THEN "threw" ELSE "ok")
               ELSE /\ lastCall'.result = "ok"
                    /\ insts'[1] = insts[1]]_vars

\* cleanup('transaction') has just returned on a relational instance that holds rows
C18_Witness ==
    /\ lastCall.op = "cleanup" /\ lastCall.ret = "transaction" /\ lastCall.result = "ok"
    /\ variant # "mongoose"
    /\ Ready(insts[1])
    /\ insts[1].rows # {}

\* the strategy the spec gives a cleanup call: the argument, else the one of
\* the configuration, else 'truncate' ("none" is an absent value)
StrategyInForce(rec, arg) ==
    IF arg # "none" THEN arg
    ELSE IF rec.cleanup # "none" THEN rec.cleanup
    ELSE "truncate"

\* C19: with no backend fault, cleanup() without an argument does what the
\* adapter does for the strategy of the configuration, or for 'truncate' when
\* the configuration sets none; with an argument it does what the adapter
\* does for that argument, whatever the configuration says.
C19_ArgumentThenConfigThenTruncate ==
    [][\A arg \in Strategies \cup {"none"} :
          (lastCall'.ret = arg /\ Ready(insts[1]) /\ cleanup(1, arg, {}, FALSE, "none"))
            => LET a == adapterCleanup(insts[1], StrategyInForce(insts[1], arg), {}, FALSE, "none")
               IN  /\ insts'[1] = a.rec
                   /\ lastCall'.result = (IF a.threw THEN "threw" ELSE "ok")]_vars

\* cleanup() without an argument has just recreated the database of an
\* instance configured with cleanup: 'recreate'
C19_Witness ==
    /\ lastCall.op = "cleanup" /\ lastCall.ret = "none" /\ lastCall.result = "ok"
    /\ insts[1].cleanup = "recreate"
    /\ Ready(insts[1])
    /\ insts[1].rows = {}
    /\ insts[1].touched = {}

----------------------------------------------------------------------------
(* Isolation across instances *)

\* the other ready instances, all created from the configuration of instance i
Others(i) == {k \in DOMAIN insts \ {i} : Ready(insts[k])}

----------------------------------------------------------------------------
(* Manager.destroyAll and Manager.destroy *)

\* the promise of destroyAll() settles in this step
SweepReturns == ~sweep.returned /\ sweep'.returned /\ sweep'.ids # {}

\* C21: when destroyAll() returns, normally or with an error, every
\* instance that was registered at the call and whose destroy did not fail
\* has been destroyed and removed from the registry.
C21_DestroyAllLeavesNoOtherBehind ==
    [][SweepReturns
        => \A id \in sweep'.ids \ sweep'.failed :
              /\ id \notin DOMAIN databases'
              /\ insts'[databases[id]].destroyed]_vars

\* C22: once every destroy of a destroyAll() has settled, the error the call
\* surfaced reports each destroy that failed.
C22_DestroyAllReportsEveryFailure ==
    (sweep.returned /\ sweep.pending = {}) => sweep.failed \subseteq sweep.reported

C24_IdsPairwiseDistinct ==
    /\ \A i, j \in DOMAIN insts : i # j => insts[i].id # insts[j].id
    /\ \A i \in DOMAIN insts :
          (insts[i].held /\ ~insts[i].destroyed) => (insts[i].id \in DOMAIN databases /\ databases[insts[i].id] = i)

----------------------------------------------------------------------------
(* Instances before initialize() has succeeded *)

\* C25: on an instance whose initialize() has not succeeded, the last
\* getClient()/getConnection()/getDataSource() or seed() call ended in the
\* state error, and the seed() started neither the callback nor a seeder body.
C25_UninitializedFailsWithStateError ==
    \A i \in DOMAIN insts :
       (~isReady(insts[i]) /\ lastCall.inst = i /\ lastCall.op \in {"getClient", "seed"})
         => /\ FailsWithStateError(lastCall)
            /\ lastCall.op = "seed" => (run.pc = "failed" /\ run.started = <<>>)

\* seed() has just failed on an instance whose initialize() had thrown
C25_Witness ==
    /\ insts # <<>>
    /\ ~isReady(insts[1]) /\ insts[1].client # "null"
    /\ lastCall.op = "seed" /\ lastCall.inst = 1 /\ lastCall.result = "threw"
    /\ run.started = <<>>

\* C26: an initialize() whose adapter fails throws and leaves the instance
\* uninitialized, isReady() false and getClient() still failing with the
\* state error; an instance becomes ready in no other step than an
\* initialize() whose adapter succeeded.
C26_ReadyOnlyAfterAdapterSucceeded ==
    [][/\ \A i \in DOMAIN insts, outcome \in InitOutcomes :
             (lastCall'.op = "initialize" /\ initializeCall(i, outcome))
               => IF outcome = "ok"
                  THEN lastCall'.result = "ok" /\ isReady(insts'[i])
                  ELSE /\ lastCall'.result = "threw"
                       /\ ~isReady(insts'[i])
                       /\ getClientResult(insts'[i]).threw
                       /\ IsStateError(getClientResult(insts'[i]).err)
       /\ \A i \in DOMAIN insts :
             (~isReady(insts[i]) /\ isReady(insts'[i]))
               => (lastCall'.op = "initialize" /\ lastCall'.inst = i /\ lastCall'.result = "ok")]_vars

\* initialize() has just thrown after the adapter had built its client: the
\* instance is not ready
C26_Witness ==
    /\ insts # <<>>
    /\ lastCall.op = "initialize" /\ lastCall.inst = 1 /\ lastCall.result = "threw"
    /\ insts[1].client # "null"
    /\ ~isReady(insts[1])

----------------------------------------------------------------------------
(* TestDatabase.destroy and the resources of the instance *)

\* destroy() runs on instance i with the given backend faults
DestroyStep(i, fail, rmFails) ==
    lastCall'.op = "destroy" /\ lastCall'.inst = i /\ destroy(i, fail, rmFails)

\* C27: after destroy() has completed on an instance, its temporary
\* database file is removed and its in-process database server is stopped.
C27_DestroyRemovesOwnedResources ==
    [][\A i \in DOMAIN insts, fail \in CloseFailures, rmFails \in BOOLEAN :
          (DestroyStep(i, fail, rmFails) /\ lastCall'.result = "ok")
            => i \notin files' /\ insts'[i].server # "running"]_vars

\* C28: destroy() throws only when closing the primary connection fails,
\* never because the removal of the temporary file or the stop of the
\* server failed.
C28_DestroyThrowsOnlyForConnection ==
    [][\A i \in DOMAIN insts, fail \in CloseFailures, rmFails \in BOOLEAN :
          (DestroyStep(i, fail, rmFails) /\ lastCall'.result = "threw")
            => close(insts[i], fail).threw]_vars

----------------------------------------------------------------------------
(* adapter.initialize: connection timeout and migrations *)

\* the kind of an error: its class and its code
Kind(e) == <<e.type, e.code>>

\* C29: when the wait for the connection-open signal exceeds
\* connectionTimeout, initialize() fails with an error whose kind differs from
\* the kind of the error of a connection attempt that itself failed
C29_TimeoutKindDiffers ==
    [][\A i \in DOMAIN insts : \A st \in InitStages :
          (variant = "mongoose" /\ ~st.serverFails /\ st.connect = "timeout" /\ initializeStaged(i, st))
          => (/\ lastCall'.result = "threw"
              /\ Kind(lastCall'.err) # Kind(adapterInitializeResult([st EXCEPT !.connect = "error"]).thrown))]_vars

\* the steps contain a direct schema synchronization
Synchronizes(steps) == \E k \in DOMAIN steps : steps[k] \in {"push", "fallback", "synchronize"}

\* C30: with migrations to be applied, when applying the saved migrations
\* fails or none are saved, the adapter synchronizes the schema directly, and
\* initialize() fails with a migration error only if that fallback failed too
C30_MigrationErrorOnlyAfterFallback ==
    [][\A i \in DOMAIN insts : \A st \in InitStages :
          (/\ st.migrate /\ st.connect = "open"
           /\ variant = "typeorm" => st.synchronize
           /\ st.primaryFails \/ ~st.saved
           /\ initializeStaged(i, st))
          => (/\ Synchronizes(adapterInitializeResult(st).steps)
              /\ lastCall'.err.type = "MigrationError" => st.fallbackFails)]_vars

----------------------------------------------------------------------------
(* ErrorHandler.handle *)

\* C39: ErrorHandler.handle never throws itself: whatever value a seeder body
\* threw, the handle() call of seed() on TypeORM and Mongoose returns a typed
\* toolkit error, and handling that error once more gives the same error
C39_HandleReturnsTypedError ==
    (run.pc = "failed" /\ run.started # <<>> /\ variant # "prisma") =>
        /\ run.thrown.type \in NestTestKitErrorTypes
        /\ ~handle(run.thrown, <<"again">>).threw
        /\ handle(run.thrown, <<"again">>).value = run.thrown

----------------------------------------------------------------------------
(* The resolved order as a permutation *)

\* a and b hold the same elements, each as often in a as in b
IsPermutation(a, b) ==
    /\ Len(a) = Len(b)
    /\ \A x \in Range(a) \cup Range(b) :
          Cardinality({k \in DOMAIN a : a[k] = x}) = Cardinality({k \in DOMAIN b : b[k] = x})

\* C38: for every list of uniquely named seeders that resolves without
\* error, the resolved order is a permutation of the list, and a seed(list)
\* that succeeded has run the body of every seeder exactly once
C38_ResolvedIsPermutation ==
    (run.pc # "idle" /\ resolveDependencies(seeders).thrown = NoError) =>
        /\ IsPermutation(run.order, seeders)
        /\ IsPermutation(resolveDependencies(seeders).resolved, seeders)
        /\ run.pc = "done" =>
              /\ IsPermutation(run.started, Names(seeders))
              /\ IsPermutation(run.finished, Names(seeders))

\* a dependency listed after its dependent, reached twice by the traversal,
\* has run once
C38_Witness ==
    /\ run.pc = "done"
    /\ seeders = <<Seeder("B", <<"A">>), Seeder("A", <<>>)>>
    /\ run.finished = <<"A", "B">>

----------------------------------------------------------------------------
(* isReady() *)

\* C34: isReady() is true exactly while the instance is in the ready state:
\* false before initialize() has succeeded, true from then on, whatever
\* cleanup() calls were made, and false once destroy() has completed
C34_ReadyExactlyWhileReady ==
    \A i \in DOMAIN insts :
        isReady(insts[i]) <=> (insts[i].isInitialized /\ ~insts[i].destroyed)

----------------------------------------------------------------------------
(* adapter.getConnection() *)

\* C33: the adapter's getConnection() yields a handle only between a
\* successful initialize() and close(): on an adapter never initialized,
\* whose initialize() failed part-way, or closed by a completed destroy(), it
\* fails with a state error
C33_HandleOnlyBetweenInitializeAndClose ==
    \A i \in DOMAIN insts :
        LET g == getConnection(insts[i]) IN
        /\ g.ret = "handle" => (insts[i].isInitialized /\ ~insts[i].destroyed)
        /\ g.ret # "handle" => (g.threw /\ IsStateError(g.err))

----------------------------------------------------------------------------
(* Resources of a failed Manager.create *)

\* C37: when Manager.create(config) fails, nothing allocated for the attempt
\* survives the call: the temporary database file generated for it is
\* removed and the in-process server started for it is stopped
C37_FailedCreateLeavesNoResource ==
    [][(lastCall'.op = "create" /\ lastCall'.result = "threw" /\ Len(insts') = Len(insts) + 1)
        => (/\ Len(insts') \notin files'
            /\ insts'[Len(insts')].server # "running")]_vars

----------------------------------------------------------------------------
(* destroyAll() and a create() that completes while it runs *)

\* C36: destroyAll() works on the ids registered when it is called: when it
\* resolves without error, each of those instances is destroyed and removed
\* from the registry, and no step of it touches an instance registered under
\* another id, such as one whose create() completed during the call
C36_DestroyAllWorksOnSnapshot ==
    [][/\ (SweepReturns /\ lastCall'.result = "ok") =>
             \A k \in DOMAIN insts' : insts'[k].id \in sweep'.ids =>
                 (insts'[k].destroyed /\ insts'[k].id \notin DOMAIN databases')
       /\ \A id \in DOMAIN databases \ sweep'.ids :
             /\ id \in DOMAIN databases' /\ databases'[id] = databases[id]
             /\ insts'[databases[id]] = insts[databases[id]]]_vars

\* destroyAll() has resolved without error, and the instance registered by a
\* create() during the call is in the registry, not destroyed
C36_Witness ==
    /\ lastCall = Call("destroyAll", 0, "ok", "none", NoError)
    /\ sweep.returned /\ sweep.ids # {} /\ sweep.failed = {}
    /\ \E id \in DOMAIN databases : id \notin sweep.ids /\ ~insts[databases[id]].destroyed

----------------------------------------------------------------------------
(* WithTransaction / WithTypeORMTransaction *)

----------------------------------------------------------------------------
(* Lifecycle transitions in flight on one instance *)

\* C31: at most one lifecycle transition is in flight on an instance at any
\* time: while a cleanup() is awaiting, a destroy() requested on the same
\* instance has not started its steps, and the other way round
C31_OneTransitionInFlight ==
    ~(flight.reset # "idle" /\ flight.destroy # "idle")

\* C35: once destroy() has returned for an instance, its adapter never again
\* holds an open connection, also when a cleanup('recreate') that was in
\* flight during the destroy() resumes afterwards
C35_NoOpenConnectionAfterDestroy ==
    \A i \in DOMAIN insts : insts[i].destroyed => insts[i].client # "open"

====
